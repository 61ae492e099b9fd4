--------------------------- MODULE Listeners_proofs ---------------------------
(***************************************************************************)
(* What an accepted configuration promises, and what connections get of    *)
(* it, for any file and any set of peers.  The proof follows the parser    *)
(* directive by directive, but asks of each only what it does to the       *)
(* cursor, to the Server, to the Location and to the list of locations.    *)
(***************************************************************************)
EXTENDS Listeners, CommonLemmas, FiniteSetTheorems

-----------------------------------------------------------------------------
(* Numbers *)

Numbers == {Number[t] : t \in DOMAIN Number}

(* stoiServer and stoiLocation take what an int holds and no sign.         *)
LEMMA StoiTyped ==
  ASSUME NEW text, NEW value
  PROVE  stoi(text, value) # Bad =>
           stoi(text, value) \in 0 .. IntMax /\ stoi(text, value) \in Numbers
<1>1. text \in DOMAIN Number => Number[text] \in -IntMax - 1 .. IntMax BY IntAssumption
<1> QED BY <1>1, IntAssumption DEF stoi, Bad, Numbers

(* So does the argument of a directive.                                    *)
LEMMA ArgumentTyped ==
  ASSUME NEW value PROVE Stoi(value) # Bad => Stoi(value) \in 0 .. IntMax /\ Stoi(value) \in Numbers
BY StoiTyped DEF Stoi

(* A product that left the range of int is back in it.                     *)
LEMMA WrapTyped ==
  ASSUME NEW n \in Int PROVE Wrap(n) \in Ints
<1> DEFINE m == 2 * (IntMax + 1)
<1>1. m \in Nat \ {0} BY IntAssumption
<1> HIDE DEF m
<1>2. (n + IntMax + 1) \in Int BY IntAssumption
<1>3. (n + IntMax + 1) % m \in 0 .. m - 1 BY <1>1, <1>2
<1> QED BY <1>3, IntAssumption DEF Wrap, Ints, m

(* A size is a product of such a number and its unit's factor.             *)
LEMMA SizeTyped ==
  ASSUME NEW value PROVE Size(value) \in Ints
<1>1. Bad \in Ints BY IntAssumption DEF Bad, Ints
<1>2. ASSUME NEW text, NEW n \in 0 .. IntMax PROVE Wrap(n * Factor(text)) \in Ints
  <2>1. Factor(text) \in {1, 1000, 1000000} BY IntAssumption DEF Factor
  <2>2. n * Factor(text) \in Int BY <2>1, IntAssumption
  <2> QED BY <2>2, WrapTyped
<1>3. LET n == stoi(NumberPart(Text(Argument)), value) IN n # Bad => n \in 0 .. IntMax
  BY StoiTyped
<1> QED BY <1>1, <1>2, <1>3 DEF Size

-----------------------------------------------------------------------------
(* Fields *)

(* t is s, but for one of its fields.                                      *)
Changed(s, f, v, t) ==
  DOMAIN t = DOMAIN s /\ t[f] = v /\ \A g \in DOMAIN s : g # f => t[g] = s[g]

(* Setting a field of a record leaves the others alone.                    *)
LEMMA FieldSet ==
  ASSUME NEW s, NEW f \in DOMAIN s, NEW v, NEW t, t = [s EXCEPT ![f] = v]
  PROVE  Changed(s, f, v, t)
BY DEF Changed

ServerFields ==
  {"port", "backlog", "client_timeout_sec", "max_body_size", "body_ram_threshold",
   "header_cap", "autoindex", "host", "root", "index", "name", "error_pages", "location"}

(* The values of a field: unset, or within its limits.                     *)
InRange(f, v) ==
  /\ f = "port" => v = Unset \/ v \in Ports
  /\ f = "backlog" => v = Unset \/ v \in 1 .. SOMAXCONN
  /\ f = "client_timeout_sec" => v = Unset \/ v \in 0 .. MaxTimeout
  /\ f = "header_cap" => v = Unset \/ v \in 512 .. IntMax
  /\ f = "body_ram_threshold" => v = Unset \/ v \in 0 .. IntMax
  /\ f = "max_body_size" => v \in Ints
  /\ f = "host" => v = "" \/ v \in Ipv4 \cup {AnyAddress}

(* The limits of a block, in the making or done.                           *)
Limited(s) == DOMAIN s = ServerFields /\ \A f \in ServerFields : InRange(f, s[f])

(* A directive's value keeps the block within its limits.                  *)
LEMMA LimitedSet ==
  ASSUME NEW s, Limited(s), NEW f \in ServerFields, NEW v, InRange(f, v),
         NEW t, Changed(s, f, v, t)
  PROVE  Limited(t) /\ \A g \in ServerFields : g # f => t[g] = s[g]
BY DEF Limited, Changed

(* The fields that have limits; unset is in range for all.                 *)
LimitedFields ==
  {"port", "backlog", "client_timeout_sec", "header_cap", "body_ram_threshold", "max_body_size"}

(* What is not set yet is allowed everywhere but for the host.             *)
LEMMA UnsetInRange == ASSUME NEW f \in LimitedFields PROVE InRange(f, Unset)
<1>1. Unset \in Ints BY IntAssumption DEF Unset, Ints
<1>2. f # "host" BY DEF LimitedFields
<1> QED BY <1>1, <1>2 DEF InRange

(* Fields without a limit take any value.                                  *)
LEMMA AnyInRange == ASSUME NEW f, f \notin LimitedFields \cup {"host"}, NEW v PROVE InRange(f, v)
BY DEF InRange, LimitedFields

(* A new block has none yet.                                               *)
LEMMA NewServerLimited == Limited(NewServer) /\ NewServer["location"] = << >>
<1>1. DOMAIN NewServer = ServerFields BY DEF NewServer, ServerFields
<1>2. /\ NewServer["port"] = Unset /\ NewServer["backlog"] = Unset
      /\ NewServer["client_timeout_sec"] = Unset /\ NewServer["header_cap"] = Unset
      /\ NewServer["body_ram_threshold"] = Unset /\ NewServer["max_body_size"] = Unset
      /\ NewServer["location"] = << >>
  BY DEF NewServer
<1>3. ASSUME NEW f PROVE InRange(f, NewServer[f])
  <2>1. CASE f \in LimitedFields
    <3>1. NewServer[f] = Unset BY <1>2, <2>1 DEF LimitedFields
    <3> QED BY <2>1, <3>1, UnsetInRange
  <2>2. CASE f = "host"
    <3>1. NewServer[f] = "" BY <2>2 DEF NewServer
    <3> QED BY <3>1, <2>2 DEF InRange
  <2> QED BY <2>1, <2>2, AnyInRange
<1> QED BY <1>1, <1>2, <1>3, Zenon DEF Limited

-----------------------------------------------------------------------------
(* What a step of the parser does                                          *)

(* It throws, or reads past the tokens.                                    *)
Stops ==
  /\ ctx' \in {"rejected", "undefined"}
  /\ UNCHANGED <<tokens, first, second, srv, specs, loc, serverEnd, nodes>>

(* It goes on behind the token that follows last.                          *)
Passes(last) ==
  /\ Type(last + 1) # "undefined" /\ first' = last + 2
  /\ UNCHANGED <<tokens, second, ctx, serverEnd, nodes>>

(* It gives a field of the Server a value.                                 *)
SetsServer(f, v, last) ==
  /\ ctx = "server" /\ Passes(last)
  /\ srv' = [srv EXCEPT ![f] = v] /\ UNCHANGED <<specs, loc>>
ServerSet ==
  \E f \in ServerFields \ {"location"}, last \in Int : \E v :
    InRange(f, v) /\ SetsServer(f, v, last)

(* A directive that sets one field within its limits is of that kind.      *)
LEMMA ServerSetBy ==
  ASSUME NEW f \in ServerFields \ {"location"}, NEW v, NEW last \in Int,
         InRange(f, v), SetsServer(f, v, last)
  PROVE  ServerSet
BY Zenon DEF ServerSet

(* The bounds of the directives.                                           *)
LEMMA BoundsTyped == MaxPort \in Nat /\ MaxTimeout \in Nat /\ SOMAXCONN \in Nat
BY DEF MaxPort, MaxTimeout, SOMAXCONN

(* What is below a bound is in range.                                      *)
LEMMA Below ==
  ASSUME NEW n \in 0 .. IntMax, NEW m \in Nat, n <= m PROVE n \in 0 .. m
BY IntAssumption

(* The number directives, one by one.                                      *)
LEMMA PortSet == ASSUME first \in Int, handlePort PROVE Stops \/ ServerSet
<1> DEFINE n == Stoi(srv.port)
           ok == n # Bad /\ n <= MaxPort
<1>1. ctx = "server" /\ SetServer(ok, "port", n, Argument) BY DEF handlePort, Handles
<1>2. ASSUME ok PROVE InRange("port", n)
  <2>1. n \in 0 .. IntMax /\ n \in Numbers BY <1>2, ArgumentTyped
  <2> HIDE DEF n
  <2>2. n \in 0 .. MaxPort BY <1>2, <2>1, Below, BoundsTyped
  <2> QED BY <2>1, <2>2 DEF InRange, Ports, Numbers
<1> HIDE DEF n, ok
<1>3. Stops \/ (ok /\ SetsServer("port", n, Argument))
  BY <1>1 DEF SetServer, Finish, Reject, Ends, Stops, SetsServer, Passes
<1>4. Argument \in Int /\ "port" \in ServerFields \ {"location"} BY DEF Argument, ServerFields
<1> QED BY <1>2, <1>3, <1>4, ServerSetBy, Zenon

(* backlog sets what listen(2) takes.                                      *)
LEMMA BacklogSet == ASSUME first \in Int, handleBacklog PROVE Stops \/ ServerSet
<1> DEFINE n == Stoi(srv.backlog)
           ok == n \in 1 .. SOMAXCONN
<1>1. ctx = "server" /\ SetServer(ok, "backlog", n, Argument) BY DEF handleBacklog, Handles
<1> HIDE DEF n
<1>2. ASSUME ok PROVE InRange("backlog", n) BY <1>2 DEF InRange
<1> HIDE DEF ok
<1>3. Stops \/ (ok /\ SetsServer("backlog", n, Argument))
  BY <1>1 DEF SetServer, Finish, Reject, Ends, Stops, SetsServer, Passes
<1>4. Argument \in Int /\ "backlog" \in ServerFields \ {"location"} BY DEF Argument, ServerFields
<1> QED BY <1>2, <1>3, <1>4, ServerSetBy, Zenon

(* client_timeout_sec sets a day at most.                                  *)
LEMMA ClientTimeoutSet == ASSUME first \in Int, handleClient_timeout_sec PROVE Stops \/ ServerSet
<1> DEFINE n == Stoi(srv.client_timeout_sec)
           ok == n # Bad /\ n <= MaxTimeout
<1>1. ctx = "server" /\ SetServer(ok, "client_timeout_sec", n, Argument)
  BY DEF handleClient_timeout_sec, Handles
<1>2. ASSUME ok PROVE InRange("client_timeout_sec", n)
  <2>1. n \in 0 .. IntMax BY <1>2, ArgumentTyped
  <2> HIDE DEF n
  <2>2. n \in 0 .. MaxTimeout BY <1>2, <2>1, Below, BoundsTyped
  <2> QED BY <2>2 DEF InRange
<1> HIDE DEF n, ok
<1>3. Stops \/ (ok /\ SetsServer("client_timeout_sec", n, Argument))
  BY <1>1 DEF SetServer, Finish, Reject, Ends, Stops, SetsServer, Passes
<1>4. Argument \in Int /\ "client_timeout_sec" \in ServerFields \ {"location"}
  BY DEF Argument, ServerFields
<1> QED BY <1>2, <1>3, <1>4, ServerSetBy, Zenon

(* client_max_body_size sets an int, which may have wrapped.               *)
LEMMA MaxBodySet == ASSUME first \in Int, handleMax_body_size PROVE Stops \/ ServerSet
<1> DEFINE n == Size(srv.max_body_size)
<1>1. ctx = "server" /\ SetServer(n # Bad, "max_body_size", n, Argument)
  BY DEF handleMax_body_size, Handles
<1>2. InRange("max_body_size", n)
  <2>1. n \in Ints BY SizeTyped
  <2> HIDE DEF n
  <2> QED BY <2>1 DEF InRange
<1> HIDE DEF n
<1>3. Stops \/ SetsServer("max_body_size", n, Argument)
  BY <1>1 DEF SetServer, Finish, Reject, Ends, Stops, SetsServer, Passes
<1>4. Argument \in Int /\ "max_body_size" \in ServerFields \ {"location"}
  BY DEF Argument, ServerFields
<1> QED BY <1>2, <1>3, <1>4, ServerSetBy, Zenon

(* body_ram_threshold sets a number without sign.                          *)
LEMMA ThresholdSet == ASSUME first \in Int, handleBody_ram_threshold PROVE Stops \/ ServerSet
<1> DEFINE n == Stoi(srv.body_ram_threshold)
           ok == n # Bad /\ (srv.max_body_size # Unset => n <= srv.max_body_size)
<1>1. ctx = "server" /\ SetServer(ok, "body_ram_threshold", n, Argument)
  BY DEF handleBody_ram_threshold, Handles
<1>2. ASSUME ok PROVE InRange("body_ram_threshold", n)
  <2>1. n \in 0 .. IntMax BY <1>2, ArgumentTyped
  <2> HIDE DEF n
  <2> QED BY <2>1 DEF InRange
<1> HIDE DEF n, ok
<1>3. Stops \/ (ok /\ SetsServer("body_ram_threshold", n, Argument))
  BY <1>1 DEF SetServer, Finish, Reject, Ends, Stops, SetsServer, Passes
<1>4. Argument \in Int /\ "body_ram_threshold" \in ServerFields \ {"location"}
  BY DEF Argument, ServerFields
<1> QED BY <1>2, <1>3, <1>4, ServerSetBy, Zenon

(* client_header_buffer_size sets 512 at least.                            *)
LEMMA HeaderCapSet == ASSUME first \in Int, handleHeader_cap PROVE Stops \/ ServerSet
<1> DEFINE n == Size(srv.header_cap)
           ok == n # Bad /\ n >= 512
<1>1. ctx = "server" /\ SetServer(ok, "header_cap", n, Argument) BY DEF handleHeader_cap, Handles
<1>2. ASSUME ok PROVE InRange("header_cap", n)
  <2>1. n \in Ints BY SizeTyped
  <2> HIDE DEF n
  <2>2. n \in 512 .. IntMax BY <1>2, <2>1, IntAssumption DEF Ints
  <2> QED BY <2>2 DEF InRange
<1> HIDE DEF n, ok
<1>3. Stops \/ (ok /\ SetsServer("header_cap", n, Argument))
  BY <1>1 DEF SetServer, Finish, Reject, Ends, Stops, SetsServer, Passes
<1>4. Argument \in Int /\ "header_cap" \in ServerFields \ {"location"}
  BY DEF Argument, ServerFields
<1> QED BY <1>2, <1>3, <1>4, ServerSetBy, Zenon

-----------------------------------------------------------------------------
(* The cursor                                                              *)

(* Only what is a token has a type.                                        *)
LEMMA TypedToken == ASSUME NEW p, Type(p) # "undefined" PROVE p \in DOMAIN tokens
BY DEF Type

(* What is read at an argument is a token.                                 *)
LEMMA ArgumentToken == ASSUME NEW p, IsArgument(p) PROVE p \in DOMAIN tokens /\ p # second
BY TypedToken DEF IsArgument

(* The arguments that follow a token end before the end of the file.       *)
LEMMA ArgumentsEnd ==
  ASSUME Listed(tokens), NEW p \in Nat, p <= Len(tokens) + 1
  PROVE  ArgumentEnd(p) \in p .. Len(tokens) + 1
<1> DEFINE S == {q \in p .. Len(tokens) + 1 : ~IsArgument(q)}
<1>1. Len(tokens) \in Nat /\ DOMAIN tokens = 1 .. Len(tokens) BY DEF Listed
<1>2. ~IsArgument(Len(tokens) + 1)
  <2>1. Len(tokens) + 1 \notin DOMAIN tokens BY <1>1
  <2> QED BY <2>1, ArgumentToken
<1>3. Len(tokens) + 1 \in S BY <1>1, <1>2
<1>4. S \in SUBSET Nat BY <1>1
<1>5. ArgumentEnd(p) = Min(S) BY DEF ArgumentEnd
<1> HIDE DEF S
<1>6. Min(S) \in S BY <1>3, <1>4, Least
<1> QED BY <1>5, <1>6 DEF S

(* The arguments of a directive end where the tokens do, at the latest.    *)
LEMMA ArgumentsCounted ==
  ASSUME Listed(tokens), first \in Nat, Type(Argument) # "undefined"
  PROVE  first + Len(Arguments) \in Int
<1>1. Argument \in Nat /\ Argument \in DOMAIN tokens BY TypedToken DEF Argument
<1>2. Argument <= Len(tokens) + 1 /\ Len(tokens) \in Nat BY <1>1 DEF Listed
<1>3. ArgumentEnd(Argument) \in Argument .. Len(tokens) + 1 BY <1>1, <1>2, ArgumentsEnd
<1> DEFINE n == ArgumentEnd(Argument) - Argument
<1>4. n \in Nat BY <1>1, <1>2, <1>3
<1>5. Arguments = [i \in 1 .. n |-> Text(first + i)] BY DEF Arguments
<1> HIDE DEF n
<1>6. Len(Arguments) = n BY <1>4, <1>5
<1> QED BY <1>4, <1>6

-----------------------------------------------------------------------------
(* The other directives of a server                                        *)

(* autoindex sets one field.                                               *)
LEMMA AutoindexSet == ASSUME first \in Int, handleAutoindex PROVE Stops \/ ServerSet
<1>1. PICK ok, v : ctx = "server" /\ SetServer(ok, "autoindex", v, Argument)
  BY DEF handleAutoindex, Handles
<1>2. InRange("autoindex", v) BY AnyInRange DEF LimitedFields
<1>3. Stops \/ SetsServer("autoindex", v, Argument)
  BY <1>1 DEF SetServer, Finish, Reject, Ends, Stops, SetsServer, Passes
<1>4. Argument \in Int /\ "autoindex" \in ServerFields \ {"location"}
  BY DEF Argument, ServerFields
<1> QED BY <1>2, <1>3, <1>4, ServerSetBy, Zenon

(* root and index set one field.                                           *)
LEMMA TextSet ==
  ASSUME first \in Int, NEW f \in {"root", "index"}, ServerText(f, f) PROVE Stops \/ ServerSet
<1>1. PICK ok, v : ctx = "server" /\ SetServer(ok, f, v, Argument)
  BY DEF ServerText, Handles
<1>2. InRange(f, v) BY AnyInRange DEF LimitedFields
<1>3. Stops \/ SetsServer(f, v, Argument)
  BY <1>1 DEF SetServer, Finish, Reject, Ends, Stops, SetsServer, Passes
<1>4. Argument \in Int /\ f \in ServerFields \ {"location"} BY DEF Argument, ServerFields
<1> QED BY <1>2, <1>3, <1>4, ServerSetBy, Zenon

(* server_name sets one field.                                             *)
LEMMA NameSet ==
  ASSUME Listed(tokens), first \in Nat, handleName PROVE Stops \/ ServerSet
<1> DEFINE last == first + Len(Arguments)
<1>1. PICK ok, v : ctx = "server" /\ SetServer(ok, "name", v, last) BY DEF handleName, Handles
<1>2. InRange("name", v) BY AnyInRange DEF LimitedFields
<1>3. last \in Int
  <2>1. Type(Argument) # "undefined" BY DEF handleName, Handles
  <2> QED BY <2>1, ArgumentsCounted
<1> HIDE DEF last
<1>4. Stops \/ SetsServer("name", v, last)
  BY <1>1 DEF SetServer, Finish, Reject, Ends, Stops, SetsServer, Passes
<1>5. "name" \in ServerFields \ {"location"} BY DEF ServerFields
<1> QED BY <1>2, <1>3, <1>4, <1>5, ServerSetBy, Zenon

(* error_page sets one field.                                              *)
LEMMA ErrorPageSet ==
  ASSUME Listed(tokens), first \in Nat, handleError_page PROVE Stops \/ ServerSet
<1> DEFINE last == first + Len(Arguments)
<1>1. PICK ok, v : ctx = "server" /\ SetServer(ok, "error_pages", v, last)
  BY DEF handleError_page, Handles
<1>2. InRange("error_pages", v) BY AnyInRange DEF LimitedFields
<1>3. last \in Int
  <2>1. Type(Argument) # "undefined" BY DEF handleError_page, Handles
  <2> QED BY <2>1, ArgumentsCounted
<1> HIDE DEF last
<1>4. Stops \/ SetsServer("error_pages", v, last)
  BY <1>1 DEF SetServer, Finish, Reject, Ends, Stops, SetsServer, Passes
<1>5. "error_pages" \in ServerFields \ {"location"} BY DEF ServerFields
<1> QED BY <1>2, <1>3, <1>4, <1>5, ServerSetBy, Zenon

(* host may also write a port; both values pass their checks.              *)
HostSet ==
  \E last \in Int : \E h, n :
    /\ ctx = "server" /\ Passes(last) /\ UNCHANGED <<specs, loc>>
    /\ InRange("host", h) /\ InRange("port", n)
    /\ srv' = [srv EXCEPT !["host"] = h, !["port"] = n]

(* host sets the address, and the port if it has one.                      *)
LEMMA HostsSet ==
  ASSUME first \in Int, Limited(srv), handleHost PROVE Stops \/ HostSet
<1> DEFINE text == Text(Argument)
           ip   == IF text \in DOMAIN HostPort THEN HostPort[text].ip ELSE text
           port == IF text \in DOMAIN HostPort THEN stoi(HostPort[text].port, srv.port)
                   ELSE srv.port
           ok == ip \in Ipv4 /\ port # Bad /\ port <= MaxPort
<1>1. PICK more : /\ ctx = "server"
                  /\ Finish(more /\ ok, Argument,
                            srv' = [srv EXCEPT !.host = ip, !.port = port]
                              /\ UNCHANGED <<specs, loc>>)
  BY DEF handleHost, Handles
<1>2. ASSUME ok PROVE InRange("host", ip) /\ InRange("port", port)
  <2>1. CASE text \in DOMAIN HostPort
    <3> DEFINE part == HostPort[text].port
    <3>1. port = stoi(part, srv.port) BY <2>1
    <3> HIDE DEF part, text
    <3>2. port \in 0 .. IntMax /\ port \in Numbers BY <1>2, <3>1, StoiTyped
    <3> HIDE DEF port
    <3>3. port \in 0 .. MaxPort BY <1>2, <3>2, Below, BoundsTyped
    <3>4. InRange("port", port) BY <3>2, <3>3 DEF InRange, Ports, Numbers
    <3> HIDE DEF ip
    <3> QED BY <1>2, <3>4 DEF InRange
  <2>2. CASE text \notin DOMAIN HostPort
    <3>1. port = srv["port"] BY <2>2
    <3>2. InRange("port", srv["port"]) BY DEF Limited, ServerFields
    <3> HIDE DEF port, ip, text
    <3>3. InRange("host", ip) BY <1>2 DEF InRange
    <3> QED BY <3>1, <3>2, <3>3
  <2> QED BY <2>1, <2>2
<1> HIDE DEF ip, port, ok
<1>3. \/ Stops
      \/ /\ ok /\ Passes(Argument) /\ UNCHANGED <<specs, loc>>
         /\ srv' = [srv EXCEPT !["host"] = ip, !["port"] = port]
  BY <1>1 DEF Finish, Reject, Ends, Stops, Passes
<1>4. Argument \in Int BY DEF Argument
<1> QED BY <1>1, <1>2, <1>3, <1>4, Zenon DEF HostSet

(* A location is listed: from here to there, with a path of its own.       *)
Spanned(spec) ==
  /\ spec.path \in DOMAIN PathOf
  /\ spec.start \in Nat /\ spec.start >= 1 /\ spec.start <= spec.end /\ spec.end \in DOMAIN tokens
LocationListed ==
  \E last \in Int : \E spec :
    /\ ctx = "server" /\ Passes(last) /\ UNCHANGED <<srv, loc>>
    /\ Spanned(spec) /\ \A i \in DOMAIN specs : specs[i].path # spec.path
    /\ specs' = Inserted(spec)

(* What the file has behind the word location.                             *)
Tokens == tokens \in {tokenise(f) : f \in Files}

(* The tokens are a sequence, as the file is.                              *)
LEMMA TokensListed == ASSUME Tokens PROVE Listed(tokens)
<1>1. PICK f \in Files : tokens = tokenise(f) BY DEF Tokens
<1>2. f \in Seq(ToSet(f)) BY FileAssumption
<1>3. Len(f) \in Nat /\ DOMAIN f = 1 .. Len(f) BY <1>2
<1>4. tokens = [i \in 1 .. Len(f) |-> [text |-> f[i], type |-> TokenType(f, i)]]
  BY <1>1, <1>3 DEF tokenise
<1>5. DOMAIN tokens = 1 .. Len(f) /\ Len(tokens) = Len(f) BY <1>3, <1>4
<1>6. tokens = [i \in 1 .. Len(f) |-> tokens[i]] BY <1>4
<1>7. tokens \in Seq({tokens[i] : i \in 1 .. Len(f)}) BY <1>3, <1>6
<1> QED BY <1>3, <1>5, <1>7 DEF Listed

(* The path of a location is one whose spelling is known.                  *)
LEMMA PathKnown ==
  ASSUME Tokens, first \in Nat, Text(first) = "location", Type(first) = "Key", IsArgument(Argument)
  PROVE  Text(Argument) \in DOMAIN PathOf
<1>1. PICK f \in Files : tokens = tokenise(f) BY DEF Tokens
<1>2. f \in Seq(ToSet(f)) BY FileAssumption
<1>3. Len(f) \in Nat /\ DOMAIN f = 1 .. Len(f) BY <1>2
<1>4. DOMAIN tokens = DOMAIN f
      /\ \A i \in DOMAIN f : tokens[i].text = f[i] /\ tokens[i].type = TokenType(f, i)
  BY <1>1 DEF tokenise
<1>5. first \in DOMAIN f /\ first + 1 \in DOMAIN f /\ TokenType(f, first + 1) = "Argument"
      /\ f[first] = "location"
  BY <1>4, TypedToken, ArgumentToken DEF IsArgument, Type, Text, Argument
<1>6. f[first + 1] \notin {"{", "}", ";"}
  <2>1. CASE IsPunctuation(f[first + 1])
    <3>1. TokenType(f, first + 1) \in DOMAIN Punctuation
      BY <2>1 DEF TokenType, IsPunctuation
    <3> QED BY <1>5, <3>1 DEF Punctuation
  <2>2. CASE ~IsPunctuation(f[first + 1]) BY <2>2 DEF IsPunctuation, Punctuation
  <2> QED BY <2>1, <2>2
<1>7. first \in 1 .. Len(f) - 1 BY <1>3, <1>5
<1>8. f[first + 1] \in DOMAIN PathOf BY <1>5, <1>6, <1>7, FileAssumption
<1> QED BY <1>4, <1>5, <1>8 DEF Text, Argument

(* location lists a path that was not listed, with the span of its block.  *)
LEMMA LocationsListed ==
  ASSUME Tokens, first \in Nat, handleLocation PROVE Stops \/ LocationListed
<1> DEFINE opens == IsArgument(Argument) /\ Type(Argument + 1) = "BlockStart"
           S == {p \in Argument + 1 .. Len(tokens) + 1 :
                   p = second \/ Type(p) \in {"BlockEnd", "undefined"}}
           end == Min(S)
           spec == [path |-> Text(Argument), start |-> Argument + 2, end |-> end]
           ok == opens /\ end # second /\ \A i \in DOMAIN specs : specs[i].path # spec.path
<1>1. /\ ctx = "server"
      /\ IF opens /\ Type(end) = "undefined" THEN Ends("undefined")
         ELSE Finish(ok, end - 1, specs' = Inserted(spec) /\ UNCHANGED <<srv, loc>>)
  BY DEF handleLocation, Handles
<1>2. /\ Type(first) = "Key" /\ Text(first) = "location"
      /\ Argument \in DOMAIN tokens /\ Argument \in Nat
  BY TypedToken DEF handleLocation, Handles, Argument
<1>3. Len(tokens) \in Nat /\ DOMAIN tokens = 1 .. Len(tokens) BY TokensListed DEF Listed
<1>4. S \in SUBSET Nat /\ Len(tokens) + 1 \in S
  <2>1. Type(Len(tokens) + 1) = "undefined" BY <1>3 DEF Type
  <2> QED BY <1>2, <1>3, <2>1
<1> HIDE DEF S
<1>5. end \in S BY <1>4, Least
<1>6. end \in Argument + 1 .. Len(tokens) + 1
      /\ (end = second \/ Type(end) \in {"BlockEnd", "undefined"})
  BY <1>5 DEF S
<1>7. end \in Nat /\ end - 1 \in Int BY <1>2, <1>3, <1>6
<1> HIDE DEF end
<1>8. /\ spec.path = Text(Argument) /\ spec.start = Argument + 2 /\ spec.end = end
  OBVIOUS
<1> HIDE DEF spec, opens
<1>9. ASSUME ok, end \in DOMAIN tokens PROVE Spanned(spec)
  <2>1. IsArgument(Argument) /\ Type(Argument + 1) = "BlockStart" /\ end # second
    BY <1>9 DEF opens
  <2>2. spec.path \in DOMAIN PathOf BY <1>2, <1>8, <2>1, PathKnown
  <2>3. end # Argument + 1
    <3>1. Type(end) \in {"BlockEnd", "undefined"} BY <1>6, <2>1
    <3> QED BY <2>1, <3>1
  <2>4. Argument + 2 <= end /\ Argument + 2 \in Nat /\ Argument + 2 >= 1 BY <1>2, <1>3, <1>6, <2>3
  <2> QED BY <1>8, <1>9, <2>2, <2>4 DEF Spanned
<1> HIDE DEF ok
<1>10. \/ Stops
       \/ ok /\ Passes(end - 1) /\ UNCHANGED <<srv, loc>> /\ specs' = Inserted(spec)
  BY <1>1 DEF Finish, Reject, Ends, Stops, Passes
<1>11. ASSUME Passes(end - 1) PROVE end \in DOMAIN tokens
  <2>1. end - 1 + 1 = end BY <1>7
  <2>2. Type(end - 1 + 1) # "undefined" BY <1>11 DEF Passes
  <2> QED BY <2>1, <2>2, TypedToken
<1>12. ok => \A i \in DOMAIN specs : specs[i].path # spec.path BY DEF ok
<1> QED BY <1>1, <1>7, <1>9, <1>10, <1>11, <1>12, Zenon DEF LocationListed

-----------------------------------------------------------------------------
(* The list of locations                                                   *)

PathLen(spec) == Len(PathOf[spec.path])

(* Longer paths first, every path once.                                    *)
Specs ==
  /\ Listed(specs)
  /\ \A i \in DOMAIN specs : Spanned(specs[i])
  /\ \A i, j \in DOMAIN specs : i < j =>
       PathLen(specs[i]) >= PathLen(specs[j]) /\ specs[i].path # specs[j].path

(* Paths have a length.                                                    *)
LEMMA PathLenTyped == ASSUME NEW spec, Spanned(spec) PROVE PathLen(spec) \in Nat
<1>1. PathOf[spec.path] \in Seq(ToSet(PathOf[spec.path])) BY PathAssumption DEF Spanned
<1> QED BY <1>1 DEF PathLen

(* A new one goes in front of the first that is shorter.                   *)
LEMMA InsertedKeepsOrder ==
  ASSUME Specs, NEW spec, Spanned(spec), \A i \in DOMAIN specs : specs[i].path # spec.path,
         NEW t, t = Inserted(spec)
  PROVE  /\ Listed(t) /\ Len(t) = Len(specs) + 1
         /\ \A i \in DOMAIN t : Spanned(t[i])
         /\ \A i, j \in DOMAIN t : i < j =>
              PathLen(t[i]) >= PathLen(t[j]) /\ t[i].path # t[j].path
<1> DEFINE S == {i \in DOMAIN specs : PathLen(specs[i]) < PathLen(spec)}
           n == Len(specs)
<1>1. n \in Nat /\ DOMAIN specs = 1 .. n /\ Listed(specs) BY DEF Specs, Listed
<1>2. \A i \in 1 .. n : Spanned(specs[i]) /\ PathLen(specs[i]) \in Nat
  BY <1>1, PathLenTyped DEF Specs
<1>3. PathLen(spec) \in Nat BY PathLenTyped
<1>4. \A i, j \in 1 .. n : i < j =>
        PathLen(specs[i]) >= PathLen(specs[j]) /\ specs[i].path # specs[j].path
  BY <1>1 DEF Specs
<1>5. t = IF S = {} THEN Append(specs, spec) ELSE InsertAt(specs, Min(S), spec)
  BY DEF Inserted, PathLen
<1>6. \E m \in 1 .. n + 1 :
        /\ Listed(t) /\ Len(t) = n + 1 /\ t[m] = spec
        /\ \A i \in 1 .. m - 1 : t[i] = specs[i] /\ PathLen(specs[i]) >= PathLen(spec)
        /\ \A i \in m .. n : t[i + 1] = specs[i] /\ PathLen(specs[i]) <= PathLen(spec)
  <2>1. CASE S = {}
    <3>1. \A i \in 1 .. n : PathLen(specs[i]) >= PathLen(spec) BY <1>1, <1>2, <1>3, <2>1
    <3> HIDE DEF S
    <3>2. /\ Listed(t) /\ Len(t) = n + 1 /\ t[n + 1] = spec
          /\ \A i \in 1 .. n : t[i] = specs[i]
      BY <1>1, <1>5, <2>1, Appended
    <3> HIDE DEF n
    <3>3. n + 1 \in 1 .. n + 1 /\ (n + 1) - 1 = n /\ n + 1 .. n = {} BY <1>1
    <3> QED BY <3>1, <3>2, <3>3
  <2>2. CASE S # {}
    <3> DEFINE m == Min(S)
    <3>1. S \in SUBSET Nat BY <1>1
    <3>2. m \in S /\ \A i \in S : m <= i
      <4> HIDE DEF S
      <4> QED BY <2>2, <3>1, Least
    <3> HIDE DEF m
    <3>3. m \in 1 .. n /\ PathLen(specs[m]) < PathLen(spec) BY <1>1, <3>2
    <3>4. \A i \in 1 .. m - 1 : PathLen(specs[i]) >= PathLen(spec)
      <4>1. ASSUME NEW i \in 1 .. m - 1 PROVE PathLen(specs[i]) >= PathLen(spec)
        <5>1. i \in 1 .. n /\ ~(m <= i) BY <1>1, <3>3
        <5>2. ~(PathLen(specs[i]) < PathLen(spec)) BY <1>1, <3>2, <5>1
        <5> QED BY <1>2, <1>3, <5>1, <5>2
      <4> QED BY <4>1
    <3>5. \A i \in m .. n : PathLen(specs[i]) <= PathLen(spec)
      <4>1. ASSUME NEW i \in m .. n PROVE PathLen(specs[i]) <= PathLen(spec)
        <5>1. i \in 1 .. n /\ (i = m \/ m < i) BY <1>1, <3>3
        <5>2. PathLen(specs[m]) >= PathLen(specs[i])
          <6>1. CASE i = m BY <1>2, <5>1, <6>1
          <6>2. CASE m < i BY <1>4, <3>3, <5>1, <6>2
          <6> QED BY <5>1, <6>1, <6>2
        <5> QED BY <1>2, <1>3, <3>3, <5>1, <5>2
      <4> QED BY <4>1
    <3> HIDE DEF S
    <3>6. t = InsertAt(specs, m, spec) BY <1>5, <2>2 DEF m
    <3>7. /\ Listed(t) /\ Len(t) = n + 1 /\ t[m] = spec
          /\ \A i \in 1 .. m - 1 : t[i] = specs[i]
          /\ \A i \in m .. n : t[i + 1] = specs[i]
      BY <1>1, <3>3, <3>6, InsertedAt
    <3> QED BY <1>1, <3>3, <3>4, <3>5, <3>7
  <2> QED BY <2>1, <2>2
<1> HIDE DEF n, S
<1>7. PICK m \in 1 .. n + 1 :
        /\ Listed(t) /\ Len(t) = n + 1 /\ t[m] = spec
        /\ \A i \in 1 .. m - 1 : t[i] = specs[i] /\ PathLen(specs[i]) >= PathLen(spec)
        /\ \A i \in m .. n : t[i + 1] = specs[i] /\ PathLen(specs[i]) <= PathLen(spec)
  BY <1>6
<1>8. DOMAIN t = 1 .. n + 1 BY <1>7 DEF Listed
(* Where an element of the new list comes from.                            *)
<1>9. ASSUME NEW i \in 1 .. n + 1
      PROVE  \/ i < m /\ i \in 1 .. n /\ t[i] = specs[i] /\ PathLen(specs[i]) >= PathLen(spec)
             \/ i = m /\ t[i] = spec
             \/ /\ i > m /\ i - 1 \in 1 .. n /\ t[i] = specs[i - 1]
                /\ PathLen(specs[i - 1]) <= PathLen(spec)
  <2>1. CASE i < m BY <1>1, <1>7, <2>1
  <2>2. CASE i = m BY <1>7, <2>2
  <2>3. CASE i > m
    <3>1. i - 1 \in m .. n /\ (i - 1) + 1 = i /\ i - 1 \in 1 .. n BY <1>1, <1>7, <2>3
    <3> QED BY <1>7, <2>3, <3>1
  <2> QED BY <1>1, <1>7, <2>1, <2>2, <2>3
<1>10. ASSUME NEW i \in 1 .. n + 1 PROVE Spanned(t[i])
  BY <1>2, <1>9
<1>11. ASSUME NEW i \in 1 .. n + 1, NEW j \in 1 .. n + 1, i < j
       PROVE  PathLen(t[i]) >= PathLen(t[j]) /\ t[i].path # t[j].path
  <2>1. CASE i < m /\ j < m BY <1>4, <1>9, <1>11, <2>1
  <2>2. CASE i < m /\ j = m BY <1>1, <1>9, <2>2
  <2>3. CASE i < m /\ j > m
    <3>1. /\ i \in 1 .. n /\ j - 1 \in 1 .. n /\ i < j - 1
          /\ t[i] = specs[i] /\ t[j] = specs[j - 1]
      BY <1>1, <1>7, <1>9, <2>3
    <3> QED BY <1>4, <3>1
  <2>4. CASE i = m /\ j > m BY <1>1, <1>3, <1>2, <1>9, <2>4
  <2>5. CASE i > m /\ j > m
    <3>1. /\ i - 1 \in 1 .. n /\ j - 1 \in 1 .. n /\ i - 1 < j - 1
          /\ t[i] = specs[i - 1] /\ t[j] = specs[j - 1]
      BY <1>1, <1>7, <1>9, <1>11, <2>5
    <3> QED BY <1>4, <3>1
  <2> QED BY <1>1, <1>7, <1>11, <2>1, <2>2, <2>3, <2>4, <2>5
<1> QED BY <1>7, <1>8, <1>10, <1>11 DEF n

-----------------------------------------------------------------------------
(* The directives of a location                                            *)

LocationFields ==
  {"path", "autoindex", "cgi_timeout_sec", "root", "alias", "index", "upload_store", "redirect",
   "cgi", "allowedMethods", "error_pages"}

(* It gives a field of the Location a value.                               *)
SetsLocation(f, v, last) ==
  /\ ctx = "location" /\ Passes(last)
  /\ loc' = [loc EXCEPT ![f] = v] /\ UNCHANGED <<specs, srv>>
TimeoutInInts(f, v) == f = "cgi_timeout_sec" => v \in Ints
LocationSet ==
  \E f \in LocationFields \ {"path"}, last \in Int : \E v :
    TimeoutInInts(f, v) /\ SetsLocation(f, v, last)

(* A directive that sets one field of the Location is of that kind.        *)
LEMMA LocationSetBy ==
  ASSUME NEW f \in LocationFields \ {"path"}, NEW v, NEW last \in Int,
         TimeoutInInts(f, v), SetsLocation(f, v, last)
  PROVE  LocationSet
BY Zenon DEF LocationSet

(* The handlers with one argument, whatever they check of it.              *)
LEMMA LocationValueSet ==
  ASSUME first \in Int,
         NEW f \in {"autoindex", "root", "alias", "index", "upload_store"},
         ctx = "location", \E ok, v : SetLocation(ok, f, v, Argument)
  PROVE  Stops \/ LocationSet
<1>1. PICK ok, v : SetLocation(ok, f, v, Argument) OBVIOUS
<1>2. TimeoutInInts(f, v) BY DEF TimeoutInInts
<1>3. Stops \/ SetsLocation(f, v, Argument)
  BY <1>1 DEF SetLocation, Finish, Reject, Ends, Stops, SetsLocation, Passes
<1>4. Argument \in Int /\ f \in LocationFields \ {"path"} BY DEF Argument, LocationFields
<1> QED BY <1>2, <1>3, <1>4, LocationSetBy, Zenon

(* These directives set one field each.                                    *)
LEMMA LocationTextsSet ==
  ASSUME first \in Int,
         \/ handleLocationAutoindex \/ handleLocationRoot \/ handleAlias \/ handleLocationIndex
         \/ handleUpload_store
  PROVE  Stops \/ LocationSet
<1>1. ASSUME NEW f \in {"autoindex", "root", "alias", "index", "upload_store"},
             ctx = "location" /\ \E ok, v : SetLocation(ok, f, v, Argument)
      PROVE  Stops \/ LocationSet
  BY <1>1, LocationValueSet
<1>2. CASE handleLocationAutoindex
  <2>1. ctx = "location" /\ \E ok, v : SetLocation(ok, "autoindex", v, Argument)
    BY <1>2 DEF handleLocationAutoindex, Handles
  <2> QED BY <1>1, <2>1
<1>3. CASE handleLocationRoot
  <2>1. ctx = "location" /\ \E ok, v : SetLocation(ok, "root", v, Argument)
    BY <1>3 DEF handleLocationRoot, LocationText, Handles
  <2> QED BY <1>1, <2>1
<1>4. CASE handleAlias
  <2>1. ctx = "location" /\ \E ok, v : SetLocation(ok, "alias", v, Argument)
    BY <1>4 DEF handleAlias, LocationText, Handles
  <2> QED BY <1>1, <2>1
<1>5. CASE handleLocationIndex
  <2>1. ctx = "location" /\ \E ok, v : SetLocation(ok, "index", v, Argument)
    BY <1>5 DEF handleLocationIndex, LocationText, Handles
  <2> QED BY <1>1, <2>1
<1>6. CASE handleUpload_store
  <2>1. ctx = "location" /\ \E ok, v : SetLocation(ok, "upload_store", v, Argument)
    BY <1>6 DEF handleUpload_store, Handles
  <2> QED BY <1>1, <2>1
<1> QED BY <1>2, <1>3, <1>4, <1>5, <1>6

(* cgi_timeout_sec sets an int.                                            *)
LEMMA CgiTimeoutSet == ASSUME first \in Int, handleCGI_timeout_sec PROVE Stops \/ LocationSet
<1> DEFINE n == Stoi(loc.cgi_timeout_sec)
           ok == n # Bad
<1>1. ctx = "location" /\ SetLocation(ok, "cgi_timeout_sec", n, Argument)
  BY DEF handleCGI_timeout_sec, Handles
<1>2. ASSUME ok PROVE TimeoutInInts("cgi_timeout_sec", n)
  <2>1. n \in 0 .. IntMax BY <1>2, ArgumentTyped
  <2> HIDE DEF n
  <2> QED BY <2>1, IntAssumption DEF TimeoutInInts, Ints
<1> HIDE DEF n, ok
<1>3. Stops \/ (ok /\ SetsLocation("cgi_timeout_sec", n, Argument))
  BY <1>1 DEF SetLocation, Finish, Reject, Ends, Stops, SetsLocation, Passes
<1>4. Argument \in Int /\ "cgi_timeout_sec" \in LocationFields \ {"path"}
  BY DEF Argument, LocationFields
<1> QED BY <1>2, <1>3, <1>4, LocationSetBy, Zenon

(* return sets one field.                                                  *)
LEMMA RedirectSet == ASSUME first \in Int, handleRedirect PROVE Stops \/ LocationSet
<1> DEFINE at == IF Stoi(Unset) = Bad THEN Argument ELSE Argument + 1
<1>1. PICK ok, v : ctx = "location" /\ SetLocation(ok, "redirect", v, at)
  BY DEF handleRedirect, Handles
<1>2. TimeoutInInts("redirect", v) BY DEF TimeoutInInts
<1>3. at \in Int BY DEF Argument
<1> HIDE DEF at
<1>4. Stops \/ SetsLocation("redirect", v, at)
  BY <1>1 DEF SetLocation, Finish, Reject, Ends, Stops, SetsLocation, Passes
<1>5. "redirect" \in LocationFields \ {"path"} BY DEF LocationFields
<1> QED BY <1>2, <1>3, <1>4, <1>5, LocationSetBy, Zenon

(* cgi sets one field.                                                     *)
LEMMA CgiSet == ASSUME first \in Int, handleCgi PROVE Stops \/ LocationSet
<1>1. PICK ok, v : ctx = "location" /\ SetLocation(ok, "cgi", v, Argument + 1)
  BY DEF handleCgi, Handles
<1>2. TimeoutInInts("cgi", v) BY DEF TimeoutInInts
<1>3. Stops \/ SetsLocation("cgi", v, Argument + 1)
  BY <1>1 DEF SetLocation, Finish, Reject, Ends, Stops, SetsLocation, Passes
<1>4. Argument + 1 \in Int /\ "cgi" \in LocationFields \ {"path"}
  BY DEF Argument, LocationFields
<1> QED BY <1>2, <1>3, <1>4, LocationSetBy, Zenon

(* allowed_methods and error_page set one field from all arguments.        *)
LEMMA ArgumentListsSet ==
  ASSUME Listed(tokens), first \in Nat, handleAllowedMethods \/ handleLocationError_page
  PROVE  Stops \/ LocationSet
<1> DEFINE last == first + Len(Arguments)
<1>0. PICK f \in {"allowedMethods", "error_pages"} :
        \E ok, v : ctx = "location" /\ SetLocation(ok, f, v, last)
  BY DEF handleAllowedMethods, handleLocationError_page, Handles
<1>1. PICK ok, v : ctx = "location" /\ SetLocation(ok, f, v, last) BY <1>0
<1>2. TimeoutInInts(f, v) BY DEF TimeoutInInts
<1>3. last \in Int
  <2>1. Type(Argument) # "undefined"
    BY DEF handleAllowedMethods, handleLocationError_page, Handles
  <2> QED BY <2>1, ArgumentsCounted
<1> HIDE DEF last
<1>4. Stops \/ SetsLocation(f, v, last)
  BY <1>1 DEF SetLocation, Finish, Reject, Ends, Stops, SetsLocation, Passes
<1>5. f \in LocationFields \ {"path"} BY DEF LocationFields
<1> QED BY <1>2, <1>3, <1>4, <1>5, LocationSetBy, Zenon

(* Every directive does one of these things.                               *)
LEMMA ServerDirectives ==
  ASSUME Tokens, first \in Nat, Limited(srv), ServerDirective
  PROVE  Stops \/ ServerSet \/ HostSet \/ LocationListed
<1>1. Listed(tokens) /\ first \in Int BY TokensListed
<1>2. handleRoot => Stops \/ ServerSet BY <1>1, TextSet DEF handleRoot
<1>3. handleIndex => Stops \/ ServerSet BY <1>1, TextSet DEF handleIndex
<1> QED BY <1>1, <1>2, <1>3, PortSet, BacklogSet, ClientTimeoutSet, MaxBodySet, ThresholdSet,
           HeaderCapSet, AutoindexSet, HostsSet, NameSet, ErrorPageSet, LocationsListed, Zenon
        DEF ServerDirective

(* Every directive of a location stops the parser or sets a field.         *)
LEMMA LocationDirectives ==
  ASSUME Tokens, first \in Nat, LocationDirective PROVE Stops \/ LocationSet
<1>1. Listed(tokens) /\ first \in Int BY TokensListed
<1> QED BY <1>1, LocationTextsSet, CgiTimeoutSet, RedirectSet, CgiSet, ArgumentListsSet, Zenon
        DEF LocationDirective

-----------------------------------------------------------------------------
(* Finished server blocks                                                  *)

(* The limits of a block once its defaults are in.                         *)
Complete(s) ==
  /\ DOMAIN s = ServerFields
  /\ s.port \in Ports /\ s.host \in Ipv4 \cup {AnyAddress}
  /\ s.backlog \in 1 .. SOMAXCONN /\ s.client_timeout_sec \in 0 .. MaxTimeout
  /\ s.header_cap \in 512 .. IntMax
  /\ s.body_ram_threshold \in 0 .. IntMax /\ s.max_body_size \in Ints
  /\ s.body_ram_threshold <= s.max_body_size

(* What checkDirectives leaves in each field.                              *)
LEMMA DefaultsByField ==
  ASSUME NEW s, DOMAIN s = ServerFields, NEW t, t = WithDefaults(s)
  PROVE  /\ DOMAIN t = ServerFields
         /\ t["port"] = s["port"] /\ t["location"] = s["location"]
         /\ t["backlog"] = Default(s["backlog"], Defaults.backlog)
         /\ t["client_timeout_sec"] = Default(s["client_timeout_sec"], Defaults.client_timeout_sec)
         /\ t["max_body_size"] = Default(s["max_body_size"], Defaults.max_body_size)
         /\ t["body_ram_threshold"] = Default(s["body_ram_threshold"], Defaults.body_ram_threshold)
         /\ t["header_cap"] = Default(s["header_cap"], Defaults.header_cap)
         /\ t["host"] = IF s["host"] = "" THEN AnyAddress ELSE s["host"]
BY DEF WithDefaults, ServerFields, AnyAddress

(* The defaults are within the limits.                                     *)
LEMMA DefaultsTyped ==
  /\ Defaults.backlog \in 1 .. SOMAXCONN /\ Defaults.client_timeout_sec \in 0 .. MaxTimeout
  /\ Defaults.max_body_size \in Ints /\ Defaults.body_ram_threshold \in 0 .. IntMax
  /\ Defaults.header_cap \in 512 .. IntMax
<1>1. Defaults.backlog \in 1 .. SOMAXCONN
  <2>1. Defaults.backlog = SOMAXCONN BY DEF Defaults
  <2>2. SOMAXCONN >= 1 BY DEF SOMAXCONN
  <2> QED BY <2>1, <2>2, BoundsTyped
<1>2. Defaults.client_timeout_sec \in 0 .. MaxTimeout
  <2>1. Defaults.client_timeout_sec = 60 BY DEF Defaults
  <2>2. 60 <= MaxTimeout BY DEF MaxTimeout
  <2> QED BY <2>1, <2>2, BoundsTyped
<1>3. Defaults.max_body_size \in Ints
  <2>1. Defaults.max_body_size = 100000 BY DEF Defaults
  <2> QED BY <2>1, IntAssumption DEF Ints
<1>4. Defaults.body_ram_threshold \in 0 .. IntMax
  <2>1. Defaults.body_ram_threshold = 16000 BY DEF Defaults
  <2> QED BY <2>1, IntAssumption
<1>5. Defaults.header_cap \in 512 .. IntMax
  <2>1. Defaults.header_cap = 8192 BY DEF Defaults
  <2> QED BY <2>1, IntAssumption
<1> QED BY <1>1, <1>2, <1>3, <1>4, <1>5

(* A block within its limits that is not incomplete is complete.           *)
LEMMA DefaultsComplete ==
  ASSUME NEW s, Limited(s), NEW t, t = WithDefaults(s), ~Incomplete(t)
  PROVE  Complete(t) /\ t["location"] = s["location"]
<1>1. /\ DOMAIN t = ServerFields
      /\ t["port"] = s["port"] /\ t["location"] = s["location"]
      /\ t["backlog"] = Default(s["backlog"], Defaults.backlog)
      /\ t["client_timeout_sec"] = Default(s["client_timeout_sec"], Defaults.client_timeout_sec)
      /\ t["max_body_size"] = Default(s["max_body_size"], Defaults.max_body_size)
      /\ t["body_ram_threshold"] = Default(s["body_ram_threshold"], Defaults.body_ram_threshold)
      /\ t["header_cap"] = Default(s["header_cap"], Defaults.header_cap)
      /\ t["host"] = IF s["host"] = "" THEN AnyAddress ELSE s["host"]
  <2>1. DOMAIN s = ServerFields BY Zenon DEF Limited
  <2> QED BY <2>1, DefaultsByField, Zenon
<1>2. \A f \in ServerFields : InRange(f, s[f]) BY Zenon DEF Limited
<1>3. ~(t["body_ram_threshold"] > t["max_body_size"]) /\ t["port"] # Unset
  BY Zenon DEF Incomplete
<1>4. t["port"] \in Ports
  <2>1. InRange("port", s["port"]) BY <1>2 DEF ServerFields
  <2>2. s["port"] = Unset \/ s["port"] \in Ports BY <2>1 DEF InRange
  <2> QED BY <1>1, <1>3, <2>2, Zenon
<1>5. t["host"] \in Ipv4 \cup {AnyAddress}
  <2>1. s["host"] = "" \/ s["host"] \in Ipv4 \cup {AnyAddress}
    BY <1>2 DEF InRange, ServerFields
  <2>2. AnyAddress \in Ipv4 \cup {AnyAddress} OBVIOUS
  <2> QED BY <1>1, <2>1, <2>2, Zenon
<1>6. t["backlog"] \in 1 .. SOMAXCONN
  <2>1. InRange("backlog", s["backlog"]) BY <1>2 DEF ServerFields
  <2>2. s["backlog"] = Unset \/ s["backlog"] \in 1 .. SOMAXCONN
    BY <2>1 DEF InRange
  <2>3. t["backlog"] = Default(s["backlog"], Defaults["backlog"]) BY <1>1, Zenon
  <2>4. Defaults["backlog"] \in 1 .. SOMAXCONN BY DefaultsTyped, Zenon
  <2> QED BY <2>2, <2>3, <2>4, Zenon DEF Default
<1>7. t["client_timeout_sec"] \in 0 .. MaxTimeout
  <2>1. InRange("client_timeout_sec", s["client_timeout_sec"]) BY <1>2 DEF ServerFields
  <2>2. s["client_timeout_sec"] = Unset \/ s["client_timeout_sec"] \in 0 .. MaxTimeout
    BY <2>1 DEF InRange
  <2>3. t["client_timeout_sec"] = Default(s["client_timeout_sec"], Defaults["client_timeout_sec"]) BY <1>1, Zenon
  <2>4. Defaults["client_timeout_sec"] \in 0 .. MaxTimeout BY DefaultsTyped, Zenon
  <2> QED BY <2>2, <2>3, <2>4, Zenon DEF Default
<1>8. t["header_cap"] \in 512 .. IntMax
  <2>1. InRange("header_cap", s["header_cap"]) BY <1>2 DEF ServerFields
  <2>2. s["header_cap"] = Unset \/ s["header_cap"] \in 512 .. IntMax
    BY <2>1 DEF InRange
  <2>3. t["header_cap"] = Default(s["header_cap"], Defaults["header_cap"]) BY <1>1, Zenon
  <2>4. Defaults["header_cap"] \in 512 .. IntMax BY DefaultsTyped, Zenon
  <2> QED BY <2>2, <2>3, <2>4, Zenon DEF Default
<1>9. t["body_ram_threshold"] \in 0 .. IntMax
  <2>1. InRange("body_ram_threshold", s["body_ram_threshold"]) BY <1>2 DEF ServerFields
  <2>2. s["body_ram_threshold"] = Unset \/ s["body_ram_threshold"] \in 0 .. IntMax
    BY <2>1 DEF InRange
  <2>3. t["body_ram_threshold"] = Default(s["body_ram_threshold"], Defaults["body_ram_threshold"])
    BY <1>1, Zenon
  <2>4. Defaults["body_ram_threshold"] \in 0 .. IntMax BY DefaultsTyped, Zenon
  <2> QED BY <2>2, <2>3, <2>4, Zenon DEF Default
<1>10. t["max_body_size"] \in Ints
  <2>1. InRange("max_body_size", s["max_body_size"]) BY <1>2 DEF ServerFields
  <2>2. s["max_body_size"] = Unset \/ s["max_body_size"] \in Ints BY <2>1 DEF InRange
  <2> QED BY <1>1, <2>2, DefaultsTyped, Zenon DEF Default
<1>11. t["body_ram_threshold"] <= t["max_body_size"]
  BY <1>3, <1>9, <1>10, IntAssumption DEF Ints
<1> QED BY <1>1, <1>4, <1>5, <1>6, <1>7, <1>8, <1>9, <1>10, <1>11, Zenon DEF Complete

(* A complete block is within its limits, its list of locations apart.     *)
LEMMA CompleteLimited == ASSUME NEW s, Complete(s) PROVE Limited(s)
<1>1. ASSUME NEW f \in ServerFields PROVE InRange(f, s[f])
  <2>1. /\ s["port"] \in Ports /\ s["host"] \in Ipv4 \cup {AnyAddress}
        /\ s["backlog"] \in 1 .. SOMAXCONN /\ s["client_timeout_sec"] \in 0 .. MaxTimeout
        /\ s["header_cap"] \in 512 .. IntMax /\ s["body_ram_threshold"] \in 0 .. IntMax
        /\ s["max_body_size"] \in Ints
    BY Zenon DEF Complete
  <2>2. f = "port" => s[f] \in Ports BY <2>1, Zenon
  <2>3. f = "backlog" => s[f] \in 1 .. SOMAXCONN BY <2>1, Zenon
  <2>4. f = "client_timeout_sec" => s[f] \in 0 .. MaxTimeout BY <2>1, Zenon
  <2>5. f = "header_cap" => s[f] \in 512 .. IntMax BY <2>1, Zenon
  <2>6. f = "body_ram_threshold" => s[f] \in 0 .. IntMax BY <2>1, Zenon
  <2>7. f = "max_body_size" => s[f] \in Ints BY <2>1, Zenon
  <2>8. f = "host" => s[f] \in Ipv4 \cup {AnyAddress} BY <2>1, Zenon
  <2> QED BY <2>2, <2>3, <2>4, <2>5, <2>6, <2>7, <2>8, Zenon DEF InRange
<1> QED BY <1>1 DEF Limited, Complete

(* The locations of a finished block are not among its limits.             *)
LEMMA CompleteLocated ==
  ASSUME NEW s, Complete(s), NEW v, NEW t, t = [s EXCEPT !["location"] = v]
  PROVE  Complete(t) /\ t["location"] = v
<1>1. "location" \in DOMAIN s BY DEF Complete, ServerFields
<1>2. DOMAIN t = DOMAIN s /\ t["location"] = v /\ \A g \in DOMAIN s : g # "location" => t[g] = s[g]
  BY <1>1, FieldSet DEF Changed
<1>3. /\ t["port"] = s["port"] /\ t["host"] = s["host"] /\ t["backlog"] = s["backlog"]
      /\ t["client_timeout_sec"] = s["client_timeout_sec"] /\ t["header_cap"] = s["header_cap"]
      /\ t["body_ram_threshold"] = s["body_ram_threshold"]
      /\ t["max_body_size"] = s["max_body_size"]
  BY <1>2 DEF Complete, ServerFields
<1> QED BY <1>2, <1>3, Zenon DEF Complete

-----------------------------------------------------------------------------
(* The invariant of the parser                                             *)

(* The cursor is at a token or right behind them; inside of a block, its   *)
(* end is a token.                                                         *)
Cursor ==
  /\ first \in 1 .. Len(tokens) + 1 /\ second \in DOMAIN tokens \cup {1}
  /\ ctx \in {"server", "location"} => second \in DOMAIN tokens
  /\ ctx = "location" => serverEnd \in DOMAIN tokens

LocTyped == DOMAIN loc = LocationFields /\ loc["cgi_timeout_sec"] \in Ints

(* The Locations parsed and the current one are the first of the list.     *)
Located(s) ==
  /\ Listed(s["location"])
  /\ Len(s["location"]) <= Len(specs)
  /\ \A j \in 1 .. Len(s["location"]) : s["location"][j]["path"] = specs[j].path
InLocation ==
  /\ Complete(srv) /\ Located(srv) /\ Len(srv["location"]) < Len(specs)
  /\ loc["path"] = specs[Len(srv["location"]) + 1].path
Current ==
  /\ Limited(srv)
  /\ ctx = "server" => srv["location"] = << >>
  /\ ctx = "location" => InLocation

(* No location comes after one whose path is a prefix of its own.          *)
Unshadowed(s) ==
  /\ Listed(s["location"])
  /\ \A j, k \in DOMAIN s["location"] : j < k =>
       ~IsPrefix(PathOf[s["location"][j]["path"]], PathOf[s["location"][k]["path"]])
Nodes == Listed(nodes) /\ \A i \in DOMAIN nodes : Complete(nodes[i]) /\ Unshadowed(nodes[i])

ParseInv == Tokens /\ Cursor /\ LocTyped /\ Specs /\ Current /\ Nodes

(* A step that stops the parser, or comes after it.                        *)
Rests ==
  /\ ctx' \notin {"server", "location"}
  /\ UNCHANGED <<tokens, first, second, srv, specs, loc, serverEnd, nodes>>

(* Listed locations stay so while the tokens and the list do.              *)
LEMMA SpecsKept == ASSUME Specs, UNCHANGED <<tokens, specs>> PROVE Specs'
BY DEF Specs, Spanned, PathLen, Listed

(* Finished blocks stay so while their list does.                          *)
LEMMA NodesKept == ASSUME Nodes, UNCHANGED nodes PROVE Nodes'
BY DEF Nodes, Listed

(* What leaves the parser's data alone keeps the invariant.                *)
LEMMA RestsKeeps == ASSUME ParseInv, Rests PROVE ParseInv'
<1>1. Tokens' /\ Cursor' /\ LocTyped' BY DEF ParseInv, Rests, Tokens, Cursor, LocTyped
<1>2. Specs' BY SpecsKept DEF ParseInv, Rests
<1>3. Nodes' BY NodesKept DEF ParseInv, Rests
<1>4. Limited(srv)' BY DEF ParseInv, Current, Limited, Rests
<1>5. Current' BY <1>4 DEF Current, Rests
<1> QED BY <1>1, <1>2, <1>3, <1>5 DEF ParseInv

(* A handler leaves the cursor where there may be a token.                 *)
LEMMA PassesKeeps ==
  ASSUME ParseInv, NEW last \in Int, Passes(last) PROVE Tokens' /\ Cursor' /\ Nodes'
<1>1. Len(tokens) \in Nat /\ DOMAIN tokens = 1 .. Len(tokens) BY TokensListed DEF ParseInv, Listed
<1>2. last + 1 \in DOMAIN tokens BY TypedToken DEF Passes
<1>3. last + 2 \in 1 .. Len(tokens) + 1 BY <1>1, <1>2
<1>4. UNCHANGED <<tokens, second, ctx, serverEnd, nodes>> /\ first' = last + 2 BY DEF Passes
<1>5. Tokens' BY <1>4 DEF ParseInv, Tokens
<1>6. Cursor' BY <1>3, <1>4 DEF ParseInv, Cursor
<1>7. Nodes' BY <1>4, NodesKept DEF ParseInv
<1> QED BY <1>5, <1>6, <1>7

(* Setting a field of the Server keeps the invariant.                      *)
LEMMA ServerSetKeeps == ASSUME ParseInv, ServerSet PROVE ParseInv'
<1>1. PICK f \in ServerFields \ {"location"}, last \in Int : \E v :
        InRange(f, v) /\ SetsServer(f, v, last)
  BY Zenon DEF ServerSet
<1>2. PICK v : InRange(f, v) /\ SetsServer(f, v, last) BY <1>1
<1>3. /\ ctx = "server" /\ Passes(last) /\ srv' = [srv EXCEPT ![f] = v]
      /\ UNCHANGED <<specs, loc>>
  BY <1>2 DEF SetsServer
<1>4. Tokens' /\ Cursor' /\ Nodes' BY <1>3, PassesKeeps
<1>5. UNCHANGED <<tokens, ctx>> BY <1>3 DEF Passes
<1>6. LocTyped' BY <1>3 DEF ParseInv, LocTyped
<1>7. Specs' BY <1>3, <1>5, SpecsKept DEF ParseInv
<1>8. Limited(srv) /\ srv["location"] = << >> BY <1>3 DEF ParseInv, Current
<1>9. Limited(srv') /\ srv'["location"] = << >>
  <2>1. f \in ServerFields /\ f # "location" /\ "location" \in ServerFields BY DEF ServerFields
  <2>2. f \in DOMAIN srv BY <1>8, <2>1 DEF Limited
  <2>3. Changed(srv, f, v, srv') BY <1>3, <2>2, FieldSet
  <2>4. Limited(srv') /\ \A g \in ServerFields : g # f => srv'[g] = srv[g]
    BY <1>2, <1>8, <2>1, <2>3, LimitedSet
  <2> QED BY <1>8, <2>1, <2>4
<1>10. Current' BY <1>3, <1>5, <1>9 DEF Current, Limited
<1> QED BY <1>4, <1>6, <1>7, <1>10 DEF ParseInv

(* Setting the address of the Server keeps the invariant.                  *)
LEMMA HostSetKeeps == ASSUME ParseInv, HostSet PROVE ParseInv'
<1>1. PICK last \in Int : \E h, n :
        /\ ctx = "server" /\ Passes(last) /\ UNCHANGED <<specs, loc>>
        /\ InRange("host", h) /\ InRange("port", n)
        /\ srv' = [srv EXCEPT !["host"] = h, !["port"] = n]
  BY Zenon DEF HostSet
<1>2. PICK h, n :
        /\ ctx = "server" /\ Passes(last) /\ UNCHANGED <<specs, loc>>
        /\ InRange("host", h) /\ InRange("port", n)
        /\ srv' = [srv EXCEPT !["host"] = h, !["port"] = n]
  BY <1>1
<1>4. Tokens' /\ Cursor' /\ Nodes' BY <1>2, PassesKeeps
<1>5. UNCHANGED <<tokens, ctx>> BY <1>2 DEF Passes
<1>6. LocTyped' BY <1>2 DEF ParseInv, LocTyped
<1>7. Specs' BY <1>2, <1>5, SpecsKept DEF ParseInv
<1>8. Limited(srv) /\ srv["location"] = << >> BY <1>2 DEF ParseInv, Current
<1>9. Limited(srv') /\ srv'["location"] = << >>
  <2>1. PICK t : t = [srv EXCEPT !["host"] = h] OBVIOUS
  <2>2. srv' = [t EXCEPT !["port"] = n] BY <1>2, <2>1
  <2>3. /\ "host" \in ServerFields /\ "port" \in ServerFields /\ "location" \in ServerFields
        /\ "host" # "location" /\ "port" # "location"
    BY DEF ServerFields
  <2>4. Limited(t) /\ \A g \in ServerFields : g # "host" => t[g] = srv[g]
    <3>1. "host" \in DOMAIN srv BY <1>8, <2>3 DEF Limited
    <3>2. Changed(srv, "host", h, t) BY <2>1, <3>1, FieldSet
    <3> QED BY <1>2, <1>8, <2>3, <3>2, LimitedSet
  <2>5. Limited(srv') /\ \A g \in ServerFields : g # "port" => srv'[g] = t[g]
    <3>1. "port" \in DOMAIN t BY <2>3, <2>4 DEF Limited
    <3>2. Changed(t, "port", n, srv') BY <2>2, <3>1, FieldSet
    <3>3. Limited(t) /\ InRange("port", n) /\ "port" \in ServerFields BY <1>2, <2>3, <2>4
    <3> QED BY <3>2, <3>3 DEF Limited, Changed
  <2> QED BY <1>8, <2>3, <2>4, <2>5
<1>10. Current' BY <1>2, <1>5, <1>9 DEF Current, Limited
<1> QED BY <1>4, <1>6, <1>7, <1>10 DEF ParseInv

(* Listing a location keeps the invariant.                                 *)
LEMMA LocationListedKeeps == ASSUME ParseInv, LocationListed PROVE ParseInv'
<1>1. PICK last \in Int : \E spec :
        /\ ctx = "server" /\ Passes(last) /\ UNCHANGED <<srv, loc>>
        /\ Spanned(spec) /\ \A i \in DOMAIN specs : specs[i].path # spec.path
        /\ specs' = Inserted(spec)
  BY Zenon DEF LocationListed
<1>2. PICK spec :
        /\ ctx = "server" /\ Passes(last) /\ UNCHANGED <<srv, loc>>
        /\ Spanned(spec) /\ \A i \in DOMAIN specs : specs[i].path # spec.path
        /\ specs' = Inserted(spec)
  BY <1>1
<1>4. Tokens' /\ Cursor' /\ Nodes' BY <1>2, PassesKeeps
<1>5. UNCHANGED <<tokens, ctx>> BY <1>2 DEF Passes
<1>6. LocTyped' BY <1>2 DEF ParseInv, LocTyped
<1>7. /\ Listed(specs') /\ \A i \in DOMAIN specs' : Spanned(specs'[i])
      /\ \A i, j \in DOMAIN specs' : i < j =>
           PathLen(specs'[i]) >= PathLen(specs'[j]) /\ specs'[i].path # specs'[j].path
  BY <1>2, InsertedKeepsOrder DEF ParseInv
<1>8. Specs' BY <1>5, <1>7 DEF Specs, Spanned, Listed, PathLen
<1>9. Current' BY <1>2, <1>5 DEF ParseInv, Current, Limited
<1> QED BY <1>4, <1>6, <1>8, <1>9 DEF ParseInv

(* Setting a field of the Location keeps the invariant.                    *)
LEMMA LocationSetKeeps == ASSUME ParseInv, LocationSet PROVE ParseInv'
<1>1. PICK f \in LocationFields \ {"path"}, last \in Int : \E v :
        TimeoutInInts(f, v) /\ SetsLocation(f, v, last)
  BY Zenon DEF LocationSet
<1>2. PICK v : TimeoutInInts(f, v) /\ SetsLocation(f, v, last) BY <1>1
<1>3. /\ ctx = "location" /\ Passes(last) /\ loc' = [loc EXCEPT ![f] = v]
      /\ UNCHANGED <<specs, srv>>
  BY <1>2 DEF SetsLocation
<1>4. Tokens' /\ Cursor' /\ Nodes' BY <1>3, PassesKeeps
<1>5. UNCHANGED <<tokens, ctx>> BY <1>3 DEF Passes
<1>6. f \in DOMAIN loc /\ LocTyped BY DEF ParseInv, LocTyped
<1>7. DOMAIN loc' = DOMAIN loc /\ loc'[f] = v /\ \A g \in DOMAIN loc : g # f => loc'[g] = loc[g]
  BY <1>3, <1>6, FieldSet DEF Changed
<1>8. LocTyped'
  <2>1. loc'["cgi_timeout_sec"] \in Ints
    <3>1. CASE f = "cgi_timeout_sec" BY <1>2, <1>7, <3>1 DEF TimeoutInInts
    <3>2. CASE f # "cgi_timeout_sec"
      BY <1>6, <1>7, <3>2 DEF LocTyped, LocationFields
    <3> QED BY <3>1, <3>2
  <2> QED BY <1>6, <1>7, <2>1 DEF LocTyped
<1>9. Specs' BY <1>3, <1>5, SpecsKept DEF ParseInv
<1>10. loc'["path"] = loc["path"] BY <1>6, <1>7 DEF LocTyped, LocationFields
<1>11. Current /\ ctx = "location" BY <1>3 DEF ParseInv
<1>12. Limited(srv') BY <1>3, <1>11 DEF Current
<1>13. InLocation' BY <1>3, <1>10, <1>11 DEF Current, InLocation, Located, Listed, Complete
<1>14. Current' BY <1>3, <1>5, <1>12, <1>13 DEF Current, Limited
<1> QED BY <1>4, <1>8, <1>9, <1>14 DEF ParseInv

(* The next server block is entered, or there is none or a bad one.        *)
LEMMA ParseNodesKeeps == ASSUME ParseInv, parseNodes PROVE ParseInv'
<1> DEFINE S == Closing(first + 1)
<1>1. /\ ctx = "file"
      /\ \/ Rests
         \/ /\ Type(first + 1) # "undefined" /\ S # {}
            /\ first' = first + 2 /\ second' = Min(S)
            /\ srv' = NewServer /\ specs' = << >> /\ ctx' = "server"
            /\ UNCHANGED <<tokens, loc, serverEnd, nodes>>
  BY DEF parseNodes, Ends, Reject, Rests
<1>2. CASE Rests BY <1>2, RestsKeeps
<1>3. CASE /\ Type(first + 1) # "undefined" /\ S # {}
           /\ first' = first + 2 /\ second' = Min(S)
           /\ srv' = NewServer /\ specs' = << >> /\ ctx' = "server"
           /\ UNCHANGED <<tokens, loc, serverEnd, nodes>>
  <2>1. Len(tokens) \in Nat /\ DOMAIN tokens = 1 .. Len(tokens)
    BY TokensListed DEF ParseInv, Listed
  <2>2. first \in 1 .. Len(tokens) + 1 /\ first + 1 \in DOMAIN tokens
    BY <1>3, TypedToken DEF ParseInv, Cursor
  <2>3. S \in SUBSET Nat /\ S \subseteq DOMAIN tokens BY <2>1, <2>2 DEF Closing
  <2> HIDE DEF S
  <2>4. Min(S) \in DOMAIN tokens BY <1>3, <2>3, Least
  <2>5. first + 2 \in 1 .. Len(tokens) + 1 BY <2>1, <2>2
  <2>6. Tokens' /\ LocTyped' BY <1>3 DEF ParseInv, Tokens, LocTyped
  <2>7. Cursor' BY <1>3, <2>4, <2>5 DEF Cursor
  <2>8. Specs'
    <3>1. specs' = << >> /\ Listed(<< >>) BY <1>3 DEF Listed
    <3> QED BY <3>1 DEF Specs, Listed
  <2>9. Limited(srv') /\ srv'["location"] = << >> BY <1>3, NewServerLimited
  <2>10. Current' BY <1>3, <2>9 DEF Current, Limited
  <2>11. Nodes' BY <1>3, NodesKept DEF ParseInv
  <2> QED BY <2>6, <2>7, <2>8, <2>10, <2>11 DEF ParseInv
<1> QED BY <1>1, <1>2, <1>3

(* What a new Location is.                                                 *)
LEMMA NewLocationTyped ==
  ASSUME NEW p, NEW l, l = [NewLocation EXCEPT !.path = p]
  PROVE  DOMAIN l = LocationFields /\ l["cgi_timeout_sec"] \in Ints /\ l["path"] = p
<1>1. DOMAIN NewLocation = LocationFields /\ NewLocation["cgi_timeout_sec"] = Unset
  BY DEF NewLocation, LocationFields
<1>2. "path" \in DOMAIN NewLocation /\ "cgi_timeout_sec" \in DOMAIN NewLocation
  BY <1>1 DEF LocationFields
<1>3. Changed(NewLocation, "path", p, l) BY <1>2, FieldSet
<1>4. Unset \in Ints BY IntAssumption DEF Unset, Ints
<1> QED BY <1>1, <1>2, <1>3, <1>4 DEF Changed

(* Entering a Location of the list.                                        *)
LEMMA EnterLocationKeeps ==
  ASSUME ParseInv, UNCHANGED <<tokens, specs>>, NEW i \in DOMAIN specs, EnterLocation(i)
  PROVE  /\ first' \in 1 .. Len(tokens) + 1 /\ second' \in DOMAIN tokens
         /\ LocTyped' /\ loc'["path"] = specs[i].path
<1>1. Len(tokens) \in Nat /\ DOMAIN tokens = 1 .. Len(tokens)
  BY TokensListed DEF ParseInv, Listed
<1>2. Spanned(specs[i]) BY DEF ParseInv, Specs
<1>3. specs[i].end \in DOMAIN tokens /\ specs[i].start \in 1 .. Len(tokens) + 1
  BY <1>1, <1>2 DEF Spanned
<1>4. loc' = [NewLocation EXCEPT !.path = specs[i].path] BY DEF EnterLocation
<1>5. /\ DOMAIN loc' = LocationFields /\ loc'["cgi_timeout_sec"] \in Ints
      /\ loc'["path"] = specs[i].path
  BY <1>4, NewLocationTyped
<1> QED BY <1>3, <1>5 DEF EnterLocation, LocTyped

(* The end of a server's directives leaves the Server complete.            *)
LEMMA CheckServerKeeps == ASSUME ParseInv, checkServer PROVE ParseInv'
<1>1. PICK s : s = WithDefaults(srv) OBVIOUS
<1>2. /\ ctx = "server" /\ first = second
      /\ IF Incomplete(s) THEN Reject
         ELSE /\ srv' = s /\ ctx' = "location" /\ serverEnd' = second
              /\ EnterLocation(1) /\ UNCHANGED <<tokens, specs, nodes, handled>>
  BY <1>1 DEF checkServer
<1>3. CASE Incomplete(s)
  <2>1. Rests BY <1>2, <1>3 DEF Reject, Ends, Rests
  <2> QED BY <2>1, RestsKeeps
<1>4. CASE ~Incomplete(s)
  <2>1. /\ srv' = s /\ ctx' = "location" /\ serverEnd' = second
        /\ EnterLocation(1) /\ UNCHANGED <<tokens, specs, nodes>>
    BY <1>2, <1>4
  <2>2. Limited(srv) /\ srv["location"] = << >> BY <1>2 DEF ParseInv, Current
  <2>3. Complete(s) /\ s["location"] = << >> BY <1>1, <1>4, <2>2, DefaultsComplete
  <2>4. Listed(specs) /\ specs # << >> BY <1>4 DEF ParseInv, Specs, Incomplete
  <2>5. Len(specs) \in Nat \ {0} /\ DOMAIN specs = 1 .. Len(specs)
    BY <2>4 DEF Listed
  <2>6. 1 \in DOMAIN specs BY <2>5
  <2>7. /\ first' \in 1 .. Len(tokens) + 1 /\ second' \in DOMAIN tokens
        /\ LocTyped' /\ loc'["path"] = specs[1].path
    BY <2>1, <2>6, EnterLocationKeeps
  <2>8. second \in DOMAIN tokens BY <1>2 DEF ParseInv, Cursor
  <2>9. Cursor' BY <2>1, <2>7, <2>8 DEF Cursor
  <2>10. Tokens' /\ Specs' /\ Nodes'
    BY <2>1, SpecsKept, NodesKept DEF ParseInv, Tokens
  <2>11. Limited(srv') BY <2>1, <2>3, CompleteLimited
  <2>12. Listed(<< >>) /\ Len(<< >>) = 0 BY DEF Listed
  <2>13. /\ Complete(srv') /\ srv'["location"] = << >> /\ Len(specs') > 0
         /\ specs' = specs
    BY <2>1, <2>3, <2>5
  <2>14. loc'["path"] = specs'[Len(srv'["location"]) + 1].path
    <3>1. Len(srv'["location"]) + 1 = 1 BY <2>12, <2>13
    <3> QED BY <2>7, <2>13, <3>1
  <2>15. InLocation'
    BY <2>5, <2>12, <2>13, <2>14 DEF InLocation, Located, Complete, Listed
  <2>16. Current' BY <2>1, <2>11, <2>15 DEF Current, Limited
  <2> QED BY <2>7, <2>9, <2>10, <2>16 DEF ParseInv
<1> QED BY <1>3, <1>4

(* Defaults do not change the path.                                        *)
LEMMA LocationDefaultsPath ==
  ASSUME LocTyped, NEW l, l = LocationDefaults(loc) PROVE l["path"] = loc["path"]
<1>1. "path" \in DOMAIN loc BY DEF LocTyped, LocationFields
<1> QED BY <1>1 DEF LocationDefaults

(* Of two locations of the list, the later is not the more specific one.   *)
LEMMA ListUnshadowed ==
  ASSUME Specs, NEW i \in DOMAIN specs, NEW j \in DOMAIN specs, i < j
  PROVE  ~IsPrefix(PathOf[specs[i].path], PathOf[specs[j].path])
<1> DEFINE a == PathOf[specs[i].path]
           b == PathOf[specs[j].path]
<1>1. /\ specs[i].path \in DOMAIN PathOf /\ specs[j].path \in DOMAIN PathOf
      /\ specs[i].path # specs[j].path /\ Len(a) >= Len(b)
  BY DEF Specs, Spanned, PathLen
<1>2. a \in Seq(ToSet(a)) /\ b \in Seq(ToSet(b)) /\ a # b BY <1>1, PathAssumption
<1> HIDE DEF a, b
<1>3. SUFFICES ASSUME Len(a) <= Len(b), SubSeq(a, 1, Len(a)) = SubSeq(b, 1, Len(a)) PROVE FALSE
  BY DEF IsPrefix, a, b
<1>4. Len(a) = Len(b) /\ Len(a) \in Nat BY <1>1, <1>2, <1>3
<1>5. SubSeq(a, 1, Len(a)) = a /\ SubSeq(b, 1, Len(b)) = b BY <1>2
<1> QED BY <1>2, <1>3, <1>4, <1>5

(* The end of a location leaves its path with the Server, which may be     *)
(* finished.                                                               *)
LEMMA CheckLocationKeeps == ASSUME ParseInv, checkLocation PROVE ParseInv'
<1> DEFINE done == srv["location"]
<1>1. PICK l : l = LocationDefaults(loc) OBVIOUS
<1>2. PICK v : v = Append(done, l) OBVIOUS
<1>3. PICK s : s = [srv EXCEPT !["location"] = v] OBVIOUS
<1>4. /\ ctx = "location" /\ srv' = s
      /\ IF Len(s["location"]) < Len(specs)
         THEN EnterLocation(Len(s["location"]) + 1) /\ UNCHANGED <<ctx, nodes>>
         ELSE /\ nodes' = Append(nodes, s) /\ ctx' = "file"
              /\ first' = serverEnd + 1 /\ UNCHANGED <<second, loc>>
      /\ UNCHANGED <<tokens, specs, serverEnd>>
  BY <1>1, <1>2, <1>3 DEF checkLocation
<1>5. /\ Complete(srv) /\ Listed(done) /\ Len(done) < Len(specs)
      /\ \A j \in 1 .. Len(done) : done[j]["path"] = specs[j].path
      /\ loc["path"] = specs[Len(done) + 1].path
  BY <1>4 DEF ParseInv, Current, InLocation, Located
<1>6. l["path"] = loc["path"] BY <1>1, LocationDefaultsPath DEF ParseInv
<1> HIDE DEF done
<1>7. Complete(s) /\ s["location"] = v
  <2>1. Complete(srv) BY <1>5
  <2> QED BY <1>3, <2>1, CompleteLocated
<1>8. /\ Listed(v) /\ Len(v) = Len(done) + 1 /\ v[Len(done) + 1] = l
      /\ \A j \in 1 .. Len(done) : v[j] = done[j]
  BY <1>2, <1>5, Appended
<1>9. Len(done) \in Nat /\ Len(v) \in Nat /\ DOMAIN v = 1 .. Len(v) BY <1>5, <1>8 DEF Listed
<1>10. \A j \in 1 .. Len(v) : v[j]["path"] = specs[j].path
  <2>1. ASSUME NEW j \in 1 .. Len(v) PROVE v[j]["path"] = specs[j].path
    <3>1. j \in 1 .. Len(done) \/ j = Len(done) + 1 BY <1>8, <1>9
    <3> QED BY <1>5, <1>6, <1>8, <3>1
  <2> QED BY <2>1
<1>11. Len(specs) \in Nat /\ DOMAIN specs = 1 .. Len(specs) BY DEF ParseInv, Specs, Listed
<1>12. Len(v) <= Len(specs) BY <1>5, <1>8, <1>9, <1>11
<1>13. Limited(srv') BY <1>4, <1>7, CompleteLimited
<1>14. Tokens' /\ Specs' BY <1>4, SpecsKept DEF ParseInv, Tokens
<1>15. CASE Len(v) < Len(specs)
  <2>1. Len(v) + 1 \in DOMAIN specs BY <1>9, <1>11, <1>15
  <2>2. EnterLocation(Len(v) + 1) /\ UNCHANGED <<ctx, nodes>> BY <1>4, <1>7, <1>15
  <2>3. /\ first' \in 1 .. Len(tokens) + 1 /\ second' \in DOMAIN tokens
        /\ LocTyped' /\ loc'["path"] = specs[Len(v) + 1].path
    BY <1>4, <2>1, <2>2, EnterLocationKeeps
  <2>4. Cursor' BY <1>4, <2>2, <2>3 DEF ParseInv, Cursor
  <2>5. Nodes' BY <2>2, NodesKept DEF ParseInv
  <2>6. /\ Complete(srv') /\ srv'["location"] = v /\ specs' = specs /\ ctx' = "location"
    BY <1>4, <1>7, <2>2
  <2>7. InLocation'
    BY <1>8, <1>10, <1>15, <2>3, <2>6 DEF InLocation, Located, Complete, Listed
  <2>8. Current' BY <1>13, <2>6, <2>7 DEF Current, Limited
  <2> QED BY <1>14, <2>3, <2>4, <2>5, <2>8 DEF ParseInv
<1>16. CASE ~(Len(v) < Len(specs))
  <2>1. /\ nodes' = Append(nodes, s) /\ ctx' = "file"
        /\ first' = serverEnd + 1 /\ UNCHANGED <<second, loc>>
    BY <1>4, <1>7, <1>16
  <2>2. Len(tokens) \in Nat /\ DOMAIN tokens = 1 .. Len(tokens)
    BY TokensListed DEF ParseInv, Listed
  <2>3. serverEnd \in DOMAIN tokens BY <1>4 DEF ParseInv, Cursor
  <2>4. serverEnd + 1 \in 1 .. Len(tokens) + 1 BY <2>2, <2>3
  <2>5. Cursor' BY <1>4, <2>1, <2>4 DEF ParseInv, Cursor
  <2>6. LocTyped' BY <2>1 DEF ParseInv, LocTyped
  <2>7. Unshadowed(s)
    <3>1. ASSUME NEW j \in DOMAIN v, NEW k \in DOMAIN v, j < k
          PROVE  ~IsPrefix(PathOf[v[j]["path"]], PathOf[v[k]["path"]])
      <4>1. j \in DOMAIN specs /\ k \in DOMAIN specs BY <1>9, <1>11, <1>12
      <4>2. ~IsPrefix(PathOf[specs[j].path], PathOf[specs[k].path])
        BY <3>1, <4>1, ListUnshadowed DEF ParseInv
      <4>3. v[j]["path"] = specs[j].path /\ v[k]["path"] = specs[k].path BY <1>9, <1>10
      <4> QED BY <4>2, <4>3
    <3> QED BY <1>7, <1>8, <3>1, Zenon DEF Unshadowed
  <2>8. Nodes'
    <3>1. /\ Listed(nodes) /\ Len(nodes) \in Nat
          /\ \A i \in 1 .. Len(nodes) : Complete(nodes[i]) /\ Unshadowed(nodes[i])
      BY DEF ParseInv, Nodes, Listed
    <3>2. PICK t : t = Append(nodes, s) OBVIOUS
    <3>3. /\ Listed(t) /\ Len(t) = Len(nodes) + 1 /\ t[Len(nodes) + 1] = s
          /\ \A i \in 1 .. Len(nodes) : t[i] = nodes[i]
      BY <3>1, <3>2, Appended
    <3>4. DOMAIN t = 1 .. Len(nodes) + 1 BY <3>3 DEF Listed
    <3>5. ASSUME NEW i \in DOMAIN t PROVE Complete(t[i]) /\ Unshadowed(t[i])
      <4>1. i \in 1 .. Len(nodes) \/ i = Len(nodes) + 1 BY <3>1, <3>4
      <4> QED BY <1>7, <2>7, <3>1, <3>3, <4>1
    <3>6. nodes' = t BY <2>1, <3>2
    <3>7. Listed(nodes') BY <3>3, <3>6
    <3>8. \A i \in DOMAIN nodes' : Complete(nodes'[i]) /\ Unshadowed(nodes'[i])
      BY <3>5, <3>6
    <3> QED BY <3>7, <3>8, Zenon DEF Nodes, Listed, Complete, Unshadowed
  <2>9. Current' BY <1>13, <2>1 DEF Current, Limited
  <2> QED BY <1>14, <2>5, <2>6, <2>8, <2>9 DEF ParseInv
<1> QED BY <1>15, <1>16

(* Every step of the parser keeps the invariant.                           *)
LEMMA ParseKeeps == ASSUME ParseInv, Parse PROVE ParseInv'
<1>1. first \in Nat /\ Tokens /\ Limited(srv)
  BY TokensListed DEF ParseInv, Cursor, Current, Listed
<1>2. Stops => Rests BY DEF Stops, Rests
<1>3. NoDirective => Rests BY DEF NoDirective, Reject, Ends, Rests
<1>4. ServerDirective => ParseInv'
  BY <1>1, <1>2, ServerDirectives, RestsKeeps, ServerSetKeeps, HostSetKeeps,
     LocationListedKeeps, Zenon
<1>5. LocationDirective => ParseInv'
  BY <1>1, <1>2, LocationDirectives, RestsKeeps, LocationSetKeeps, Zenon
<1> QED BY <1>3, <1>4, <1>5, RestsKeeps, ParseNodesKeeps, CheckServerKeeps, CheckLocationKeeps,
           Zenon DEF Parse

-----------------------------------------------------------------------------
(* The parser's invariant, in the whole                                    *)

(* The parser starts with it.                                              *)
LEMMA ParseInitially == ASSUME Init PROVE ParseInv
<1>1. /\ Tokens /\ first = 1 /\ second = 1 /\ ctx = "file" /\ srv = NewServer
      /\ loc = NewLocation /\ specs = << >> /\ nodes = << >>
  BY DEF Init, ParseInit, Tokens
<1>2. Len(tokens) \in Nat BY <1>1, TokensListed DEF Listed
<1>3. Cursor BY <1>1, <1>2 DEF Cursor
<1>4. LocTyped
  <2>1. DOMAIN NewLocation = LocationFields /\ NewLocation["cgi_timeout_sec"] = Unset
    BY DEF NewLocation, LocationFields
  <2>2. Unset \in Ints BY IntAssumption DEF Unset, Ints
  <2> QED BY <1>1, <2>1, <2>2 DEF LocTyped
<1>5. Listed(<< >>) /\ DOMAIN << >> = {} BY DEF Listed
<1>6. Specs /\ Nodes BY <1>1, <1>5 DEF Specs, Nodes
<1>7. Current BY <1>1, NewServerLimited DEF Current
<1> QED BY <1>1, <1>3, <1>4, <1>6, <1>7 DEF ParseInv

(* What runs after the parser leaves what it read alone.                   *)
LEMMA NetRests ==
  ASSUME \/ GroupServers \/ OpenListener \/ OpenFails \/ buildTimeoutList
         \/ acceptClients \/ Request \/ CloseClient
  PROVE  Rests
BY DEF GroupServers, OpenListener, OpenFails, buildTimeoutList, acceptClients, Request,
       CloseClient, Ends, parseVars, Rests

(* And so does every step of the program.                                  *)
LEMMA ParseInvKept == ASSUME ParseInv, [Next]_vars PROVE ParseInv'
<1>1. CASE Parse BY <1>1, ParseKeeps
<1>2. CASE \/ GroupServers \/ OpenListener \/ OpenFails \/ buildTimeoutList
           \/ acceptClients \/ Request \/ CloseClient
  BY <1>2, NetRests, RestsKeeps
<1>3. CASE UNCHANGED vars
  <2>1. UNCHANGED <<tokens, first, second, ctx, srv, specs, loc, serverEnd, nodes>>
    BY <1>3 DEF vars, parseVars
  <2>2. Tokens' /\ Cursor' /\ LocTyped' BY <2>1 DEF ParseInv, Tokens, Cursor, LocTyped
  <2>3. Specs' /\ Nodes' BY <2>1, SpecsKept, NodesKept DEF ParseInv
  <2>4. Limited(srv)' BY <2>1 DEF ParseInv, Current, Limited
  <2>5. ctx = "location" => InLocation'
    BY <2>1 DEF ParseInv, Current, InLocation, Located, Listed, Complete
  <2>6. Current' BY <2>1, <2>4, <2>5 DEF ParseInv, Current
  <2> QED BY <2>2, <2>3, <2>6 DEF ParseInv
<1> QED BY <1>1, <1>2, <1>3 DEF Next

(* At every step the cursor is at the tokens, the limits written so far    *)
(* are in range, the locations are listed longest path first, and those    *)
(* parsed are the first of them: what the two theorems below rest on.      *)
THEOREM ParserCorrect == Spec => []ParseInv
<1>1. Init => ParseInv BY ParseInitially
<1>2. ParseInv /\ [Next]_vars => ParseInv' BY ParseInvKept
<1> QED BY <1>1, <1>2, PTL DEF Spec

(* The limits of every server that was accepted are in range: the products *)
(* of Size may leave the range of int and come back in it as anything, the *)
(* comparison of the two body sizes keeps the negative ones out.           *)
THEOREM AcceptedLimitsInRange == Spec => []LimitsInRange
<1>1. ASSUME NEW s, Complete(s)
      PROVE  /\ s.port \in 0 .. MaxPort /\ s.backlog \in 1 .. SOMAXCONN
             /\ s.client_timeout_sec \in 0 .. MaxTimeout /\ s.header_cap \in 512 .. IntMax
             /\ 0 <= s.body_ram_threshold /\ s.body_ram_threshold <= s.max_body_size
             /\ s.max_body_size <= IntMax
  <2>1. s.port \in 0 .. MaxPort BY <1>1 DEF Complete, Ports
  <2>2. s.body_ram_threshold \in 0 .. IntMax /\ s.max_body_size \in Ints BY <1>1 DEF Complete
  <2>3. 0 <= s.body_ram_threshold /\ s.max_body_size <= IntMax
    BY <2>2, IntAssumption DEF Ints
  <2> QED BY <1>1, <2>1, <2>3 DEF Complete
<1>2. ParseInv => LimitsInRange BY <1>1, Zenon DEF ParseInv, Nodes, LimitsInRange
<1> QED BY <1>2, ParserCorrect, PTL

(* No location of an accepted server comes after one whose path is a       *)
(* prefix of its own, in whatever order the file has them.                 *)
THEOREM AcceptedNoneShadowed == Spec => []NoneShadowed
<1>1. ParseInv => NoneShadowed BY Zenon DEF ParseInv, Nodes, Unshadowed, NoneShadowed
<1> QED BY <1>1, ParserCorrect, PTL

-----------------------------------------------------------------------------
(* Choosing elements of a sequence                                         *)

(* t has the elements of s up to n that are in T, in their order.          *)
Selected(t, s, n, T) ==
  /\ t \in Seq(ToSet(s))
  /\ \A i \in 1 .. Len(t) : \E k \in 1 .. n : t[i] = s[k] /\ s[k] \in T
  /\ \A k \in 1 .. n : s[k] \in T => \E i \in 1 .. Len(t) : t[i] = s[k]
  /\ \A i, j \in 1 .. Len(t) : i < j =>
       \E k, m \in 1 .. n : k < m /\ t[i] = s[k] /\ t[j] = s[m]

Piece(s, T, n) == IF s[n] \in T THEN <<s[n]>> ELSE << >>

(* One more element is appended to the chosen ones, or is not chosen.      *)
LEMMA SelectedNext ==
  ASSUME NEW s, s \in Seq(ToSet(s)), NEW n \in Nat, n + 1 \in 1 .. Len(s), NEW T, NEW t,
         Selected(t, s, n, T)
  PROVE  Selected(t \o Piece(s, T, n + 1), s, n + 1, T)
<1>1. t \in Seq(ToSet(s)) /\ Len(t) \in Nat BY DEF Selected
<1>2. CASE s[n + 1] \notin T
  <2>1. Piece(s, T, n + 1) = << >> BY <1>2 DEF Piece
  <2>2. t \o << >> = t BY <1>1
  <2>3. \A k \in 1 .. n + 1 : k \in 1 .. n \/ k = n + 1 OBVIOUS
  <2>4. \A k \in 1 .. n : k \in 1 .. n + 1 OBVIOUS
  <2>5. Selected(t, s, n + 1, T)
    <3>1. \A i \in 1 .. Len(t) : \E k \in 1 .. n + 1 : t[i] = s[k] /\ s[k] \in T
      BY <2>4 DEF Selected
    <3>2. \A k \in 1 .. n + 1 : s[k] \in T => \E i \in 1 .. Len(t) : t[i] = s[k]
      BY <1>2, <2>3 DEF Selected
    <3>3. ASSUME NEW i \in 1 .. Len(t), NEW j \in 1 .. Len(t), i < j
          PROVE  \E k, m \in 1 .. n + 1 : k < m /\ t[i] = s[k] /\ t[j] = s[m]
      <4>1. PICK k \in 1 .. n, m \in 1 .. n : k < m /\ t[i] = s[k] /\ t[j] = s[m]
        BY <3>3 DEF Selected
      <4> QED BY <2>4, <4>1
    <3> QED BY <1>1, <3>1, <3>2, <3>3 DEF Selected
  <2> QED BY <2>1, <2>2, <2>5
<1>3. CASE s[n + 1] \in T
  <2>1. PICK e : e = s[n + 1] OBVIOUS
  <2>2. Piece(s, T, n + 1) = <<e>> BY <1>3, <2>1 DEF Piece
  <2>3. e \in ToSet(s)
    <3>1. n + 1 \in DOMAIN s OBVIOUS
    <3> QED BY <2>1, <3>1 DEF ToSet
  <2>4. PICK u : u = t \o <<e>> OBVIOUS
  <2>5. /\ u \in Seq(ToSet(s)) /\ Len(u) = Len(t) + 1 /\ u[Len(t) + 1] = e
        /\ \A i \in 1 .. Len(t) : u[i] = t[i]
    <3>1. PICK d : d = <<e>> OBVIOUS
    <3>2. d \in Seq(ToSet(s)) /\ Len(d) = 1 /\ d[1] = e BY <2>3, <3>1
    <3>3. /\ t \o d \in Seq(ToSet(s)) /\ Len(t \o d) = Len(t) + Len(d)
          /\ \A m \in 1 .. Len(t) : (t \o d)[m] = t[m]
          /\ \A m \in 1 .. Len(d) : (t \o d)[Len(t) + m] = d[m]
      <4>1. t \in Seq(ToSet(s)) /\ d \in Seq(ToSet(s)) BY <1>1, <3>2
      <4> QED BY <4>1, Joined
    <3>4. u = t \o d BY <2>4, <3>1
    <3>5. 1 \in 1 .. Len(d) BY <3>2
    <3> QED BY <3>2, <3>3, <3>4, <3>5
  <2>6. \A i \in 1 .. Len(u) : i \in 1 .. Len(t) \/ i = Len(t) + 1 BY <1>1, <2>5
  <2>7. \A k \in 1 .. n + 1 : k \in 1 .. n \/ k = n + 1 OBVIOUS
  <2>8. \A k \in 1 .. n : k \in 1 .. n + 1 /\ k < n + 1 OBVIOUS
  <2>9. n + 1 \in 1 .. n + 1 /\ Len(t) + 1 \in 1 .. Len(u) BY <1>1, <2>5
  <2>10. ASSUME NEW i \in 1 .. Len(u) PROVE \E k \in 1 .. n + 1 : u[i] = s[k] /\ s[k] \in T
    <3>1. CASE i \in 1 .. Len(t)
      <4>1. PICK k \in 1 .. n : t[i] = s[k] /\ s[k] \in T BY <3>1 DEF Selected
      <4> QED BY <2>5, <2>8, <3>1, <4>1
    <3>2. CASE i = Len(t) + 1 BY <1>3, <2>1, <2>5, <2>9, <3>2
    <3> QED BY <2>6, <3>1, <3>2
  <2>11. ASSUME NEW k \in 1 .. n + 1, s[k] \in T PROVE \E i \in 1 .. Len(u) : u[i] = s[k]
    <3>1. CASE k \in 1 .. n
      <4>1. PICK i \in 1 .. Len(t) : t[i] = s[k] BY <2>11, <3>1 DEF Selected
      <4>2. i \in 1 .. Len(u) BY <1>1, <2>5
      <4> QED BY <2>5, <4>1, <4>2
    <3>2. CASE k = n + 1 BY <2>1, <2>5, <2>9, <3>2
    <3> QED BY <2>7, <3>1, <3>2
  <2>12. ASSUME NEW i \in 1 .. Len(u), NEW j \in 1 .. Len(u), i < j
         PROVE  \E k, m \in 1 .. n + 1 : k < m /\ u[i] = s[k] /\ u[j] = s[m]
    <3>1. i \in 1 .. Len(t) BY <1>1, <2>5, <2>12
    <3>2. CASE j \in 1 .. Len(t)
      <4>1. PICK k \in 1 .. n, m \in 1 .. n : k < m /\ t[i] = s[k] /\ t[j] = s[m]
        BY <2>12, <3>1, <3>2 DEF Selected
      <4> QED BY <2>5, <2>8, <3>1, <3>2, <4>1
    <3>3. CASE j = Len(t) + 1
      <4>1. PICK k \in 1 .. n : t[i] = s[k] BY <3>1 DEF Selected
      <4>2. u[i] = s[k] /\ u[j] = s[n + 1] BY <2>1, <2>5, <3>1, <3>3, <4>1
      <4> QED BY <2>8, <2>9, <4>2
    <3> QED BY <2>6, <3>2, <3>3
  <2>13. Selected(u, s, n + 1, T) BY <2>5, <2>10, <2>11, <2>12 DEF Selected
  <2> QED BY <2>2, <2>4, <2>13
<1> QED BY <1>2, <1>3

(* Chosen takes those in T, all of them, in their order.                   *)
LEMMA ChosenSelected ==
  ASSUME NEW s, s \in Seq(ToSet(s)), NEW T PROVE Selected(Chosen(s, T), s, Len(s), T)
<1> DEFINE seqs == [i \in DOMAIN s |-> IF s[i] \in T THEN <<s[i]>> ELSE << >>]
<1>1. Len(s) \in Nat /\ DOMAIN s = 1 .. Len(s) OBVIOUS
<1>2. Chosen(s, T) = FlattenSeq(seqs) BY DEF Chosen
<1>3. Len(seqs) = Len(s) /\ DOMAIN seqs = 1 .. Len(s) BY <1>1
<1>4. \A i \in 1 .. Len(s) : seqs[i] = Piece(s, T, i) BY <1>1 DEF Piece
<1>5. seqs = [i \in 1 .. Len(s) |-> seqs[i]] BY <1>1
<1> HIDE DEF seqs
<1>6. << >> \in Seq(ToSet(s)) /\ Len(<< >>) = 0 OBVIOUS
<1>7. Selected(<< >>, s, 0, T) BY <1>6 DEF Selected
<1>8. CASE Len(s) = 0
  <2>1. seqs = << >> BY <1>5, <1>8
  <2>2. FlattenSeq(seqs) = << >> BY <1>3, <1>8, <2>1 DEF FlattenSeq
  <2> QED BY <1>2, <1>7, <1>8, <2>2
<1>9. CASE Len(s) # 0
  <2>1. PICK g : /\ FlattenSeq(seqs) = g[Len(seqs)] /\ g[1] = seqs[1]
                 /\ \A i \in 1 .. Len(seqs) - 1 : g[i + 1] = g[i] \o seqs[i + 1]
    BY <1>1, <1>3, <1>9, FlattenedBySteps
  <2> DEFINE S == {n \in Nat : n <= Len(s) => Selected(g[n], s, n, T)}
  <2>2. 1 \in S
    <3>1. Selected(<< >> \o Piece(s, T, 0 + 1), s, 0 + 1, T)
      <4>1. 0 \in Nat /\ 0 + 1 \in 1 .. Len(s) BY <1>1, <1>9
      <4> QED BY <1>7, <4>1, SelectedNext, Zenon
    <3>2. << >> \o Piece(s, T, 1) = Piece(s, T, 1)
      <4>1. CASE s[1] \in T BY <4>1 DEF Piece
      <4>2. CASE s[1] \notin T BY <4>2 DEF Piece
      <4> QED BY <4>1, <4>2
    <3>3. g[1] = Piece(s, T, 1) BY <1>1, <1>4, <1>9, <2>1
    <3>4. 0 + 1 = 1 OBVIOUS
    <3>5. Selected(g[1], s, 1, T) BY <3>1, <3>2, <3>3, <3>4
    <3> QED BY <3>5
  <2>3. ASSUME NEW n \in Nat, n >= 1, n \in S PROVE n + 1 \in S
    <3>1. CASE n + 1 <= Len(s)
      <4>1. n + 1 \in 1 .. Len(s) /\ n \in 1 .. Len(seqs) - 1 /\ n <= Len(s)
        BY <1>1, <1>3, <2>3, <3>1
      <4>2. Selected(g[n], s, n, T) BY <2>3, <4>1
      <4>3. g[n + 1] = g[n] \o Piece(s, T, n + 1) BY <1>4, <2>1, <4>1
      <4>4. Selected(g[n + 1], s, n + 1, T) BY <4>1, <4>2, <4>3, SelectedNext
      <4> QED BY <4>4
    <3>2. CASE ~(n + 1 <= Len(s)) BY <3>2
    <3> QED BY <3>1, <3>2
  <2> HIDE DEF S
  <2>4. \A n \in Nat : n >= 1 => n \in S BY <2>2, <2>3, Induction
  <2>5. Len(s) \in S BY <1>1, <1>9, <2>4
  <2>6. Selected(g[Len(s)], s, Len(s), T) BY <1>1, <2>5 DEF S
  <2> QED BY <1>2, <1>3, <2>1, <2>6
<1> QED BY <1>8, <1>9

-----------------------------------------------------------------------------
(* Groups and listeners                                                    *)

(* The blocks of an address.                                               *)
BlocksAt(a) == {i \in DOMAIN nodes : Address(i) = a}

(* g lists these blocks, in the order of the file.                         *)
Ordered(g, T) ==
  /\ Listed(g) /\ ToSet(g) = T
  /\ \A m, n \in DOMAIN g : m < n => g[m] < g[n]

(* A group has the blocks of its address in the order of the file.         *)
LEMMA GroupOrdered == ASSUME Listed(nodes), NEW a PROVE Ordered(Group(a), BlocksAt(a))
<1> DEFINE T == {i \in DOMAIN nodes : Address(i) = a}
           n == Len(nodes)
<1>1. PICK t : t = Chosen(Indices, T) OBVIOUS
<1>2. n \in Nat /\ DOMAIN nodes = 1 .. n BY DEF Listed
<1>3. Indices = [i \in 1 .. n |-> i] BY <1>2 DEF Indices
<1> HIDE DEF T
<1>4. /\ DOMAIN Indices = 1 .. n /\ \A i \in 1 .. n : Indices[i] = i
      /\ ToSet(Indices) = 1 .. n
  BY <1>3 DEF ToSet
<1>5. Indices \in Seq(1 .. n) BY <1>2, <1>3
<1>6. Len(Indices) = n BY <1>2, <1>5, <1>4
<1>7. Selected(t, Indices, n, T) BY <1>1, <1>4, <1>5, <1>6, ChosenSelected
<1>8. t \in Seq(1 .. n) BY <1>4, <1>7 DEF Selected
<1>9. Listed(t) /\ DOMAIN t = 1 .. Len(t)
  <2>1. Listed(t) BY <1>8, SeqListed, Zenon
  <2> QED BY <2>1 DEF Listed
<1>10. \A i \in 1 .. Len(t) : t[i] \in T BY <1>4, <1>7 DEF Selected
<1>11. ASSUME NEW i \in T PROVE \E m \in 1 .. Len(t) : t[m] = i
  <2>1. \A k \in 1 .. n : Indices[k] \in T => \E m \in 1 .. Len(t) : t[m] = Indices[k]
    BY <1>7, Zenon DEF Selected
  <2>2. i \in 1 .. n BY <1>2 DEF T
  <2> QED BY <1>4, <2>1, <2>2
<1>12. ToSet(t) = T BY <1>9, <1>10, <1>11 DEF ToSet
<1>13. ASSUME NEW m \in DOMAIN t, NEW k \in DOMAIN t, m < k PROVE t[m] < t[k]
  <2>1. \A x, y \in 1 .. Len(t) : x < y =>
          \E i, j \in 1 .. n : i < j /\ t[x] = Indices[i] /\ t[y] = Indices[j]
    BY <1>7, Zenon DEF Selected
  <2>2. m \in 1 .. Len(t) /\ k \in 1 .. Len(t) BY <1>9
  <2>3. PICK i, j \in 1 .. n : i < j /\ t[m] = Indices[i] /\ t[k] = Indices[j]
    BY <1>13, <2>1, <2>2, Zenon
  <2> QED BY <1>4, <2>3
<1>14. Group(a) = t BY <1>1 DEF Group, T
<1> QED BY <1>9, <1>12, <1>13, <1>14 DEF Ordered, T, BlocksAt

(* The blocks want addresses that a file can write.                        *)
LEMMA WantedWritten == ASSUME Nodes PROVE Wanted \subseteq Addresses
<1> SUFFICES ASSUME NEW i \in DOMAIN nodes PROVE Address(i) \in Addresses BY DEF Wanted
<1>1. Complete(nodes[i]) BY DEF Nodes
<1>2. nodes[i].host \in Ipv4 \cup {AnyAddress} /\ nodes[i].port \in Ports
  BY <1>1, Zenon DEF Complete
<1> QED BY <1>2 DEF Address, Addresses

(* Addresses in the order of their keys, each once.                        *)
LEMMA KeyOrderTaken ==
  ASSUME NEW W \in SUBSET Addresses, NEW K, K = Chosen(KeyOrder, W)
  PROVE  Listed(K) /\ ToSet(K) = W /\ \A l, m \in DOMAIN K : K[l] = K[m] => l = m
<1>2. KeyOrder \in Seq(Addresses) /\ ToSet(KeyOrder) = Addresses BY KeyAssumption
<1>3. DOMAIN KeyOrder = 1 .. Len(KeyOrder) /\ Len(KeyOrder) \in Nat BY <1>2
<1>4. Selected(K, KeyOrder, Len(KeyOrder), W) BY <1>2, ChosenSelected
<1>5. K \in Seq(Addresses) BY <1>2, <1>4 DEF Selected
<1>6. Listed(K) /\ DOMAIN K = 1 .. Len(K) /\ Len(K) \in Nat
  <2>1. Listed(K) BY <1>5, SeqListed, Zenon
  <2> QED BY <2>1 DEF Listed
<1>7. \A l \in 1 .. Len(K) : K[l] \in W BY <1>4 DEF Selected
<1>8. ASSUME NEW a \in W PROVE \E l \in 1 .. Len(K) : K[l] = a
  <2>1. a \in ToSet(KeyOrder) BY <1>2
  <2>2. PICK k \in 1 .. Len(KeyOrder) : KeyOrder[k] = a BY <1>3, <2>1 DEF ToSet
  <2> QED BY <1>4, <2>2 DEF Selected
<1>9. ToSet(K) = W BY <1>6, <1>7, <1>8 DEF ToSet
<1>10. ASSUME NEW l \in DOMAIN K, NEW m \in DOMAIN K, l < m PROVE K[l] # K[m]
  <2>1. PICK i \in 1 .. Len(KeyOrder), j \in 1 .. Len(KeyOrder) :
          i < j /\ K[l] = KeyOrder[i] /\ K[m] = KeyOrder[j]
    <3>1. l \in 1 .. Len(K) /\ m \in 1 .. Len(K) BY <1>6
    <3> QED BY <1>4, <1>10, <3>1, Zenon DEF Selected
  <2>2. i # j /\ i \in DOMAIN KeyOrder /\ j \in DOMAIN KeyOrder BY <1>3, <2>1
  <2> QED BY <2>1, <2>2, KeyAssumption
<1>11. \A l, m \in DOMAIN K : K[l] = K[m] => l = m BY <1>6, <1>10
<1> QED BY <1>6, <1>9, <1>11

-----------------------------------------------------------------------------
(* The invariant of the listeners and the connections                      *)

Before == {"file", "server", "location", "rejected", "undefined", "accepted"}
After  == {"binding", "running", "ended"}

Grouped ==
  /\ DOMAIN bindGroups = Wanted /\ \A a \in Wanted : Ordered(bindGroups[a], BlocksAt(a))
  /\ Listed(owners) /\ Len(owners) <= Len(InKeyOrder)
  /\ \A l \in 1 .. Len(owners) : Ordered(owners[l], BlocksAt(InKeyOrder[l]))

Running ==
  /\ Len(owners) = Len(InKeyOrder)
  /\ DOMAIN timeouts = 1 .. Min({Len(owners), Len(nodes)})
  /\ \A l \in DOMAIN timeouts : timeouts[l] = nodes[l].client_timeout_sec

(* A connection is not there, or it has what its listener gave it and the  *)
(* server its first request picked.                                        *)
ConnFields == {"listener", "timeout", "server", "lines"}
Connected(k) ==
  /\ DOMAIN k = ConnFields
  /\ k["listener"] \in DOMAIN owners
  /\ k["timeout"] = IF k["listener"] \in DOMAIN timeouts THEN timeouts[k["listener"]] ELSE 0
  /\ \/ k["server"] = None
     \/ /\ k["lines"] \in HeaderBlocks
        /\ k["server"] = vhostPicker(owners[k["listener"]], getHostValue(k["lines"]))
Conns ==
  /\ DOMAIN conn = Peer
  /\ \A p \in Peer : conn[p] = NoConn \/ (ctx = "running" /\ Connected(conn[p]))

NetInv ==
  /\ ctx \in Before \cup After
  /\ ctx \in Before => bindGroups = << >> /\ owners = << >>
  /\ ctx \in After => Grouped
  /\ ctx = "running" => Running
  /\ Conns

(* Addresses stay while the blocks do.                                     *)
LEMMA BlocksKept ==
  ASSUME UNCHANGED nodes PROVE Wanted' = Wanted /\ \A a : BlocksAt(a)' = BlocksAt(a)
BY DEF Wanted, BlocksAt, Address

(* So does the server that a host picks.                                   *)
LEMMA PickKept ==
  ASSUME UNCHANGED nodes, NEW g, NEW h PROVE vhostPicker(g, h)' = vhostPicker(g, h)
BY DEF vhostPicker, Named

(* A connection stays connected while listeners and blocks do.             *)
LEMMA ConnectedKept ==
  ASSUME UNCHANGED <<owners, timeouts, nodes>>, NEW k, Connected(k) PROVE Connected(k)'
<1>1. vhostPicker(owners[k["listener"]], getHostValue(k["lines"]))'
        = vhostPicker(owners[k["listener"]], getHostValue(k["lines"]))
  BY DEF vhostPicker, Named, getHostValue
<1> QED BY <1>1 DEF Connected

(* The parser is done before anything listens.                             *)
LEMMA ParseComesFirst ==
  ASSUME ParseInv, Parse PROVE ctx \in {"file", "server", "location"} /\ ctx' \in Before
<1>1. first \in Nat /\ Tokens /\ Limited(srv)
  BY TokensListed DEF ParseInv, Cursor, Current, Listed
<1>2. CASE ServerDirective
  <2>1. ctx = "server"
    BY <1>2, Zenon
    DEF ServerDirective, handlePort, handleBacklog, handleClient_timeout_sec,
        handleMax_body_size, handleBody_ram_threshold, handleHeader_cap, handleAutoindex,
        handleHost, handleRoot, handleIndex, ServerText, handleName, handleError_page,
        handleLocation, Handles
  <2>2. Stops \/ ServerSet \/ HostSet \/ LocationListed BY <1>1, <1>2, ServerDirectives
  <2>3. ctx' \in Before \/ ctx' = ctx
    BY <2>2, Zenon DEF Stops, ServerSet, SetsServer, HostSet, LocationListed, Passes, Before
  <2> QED BY <2>1, <2>3 DEF Before
<1>3. CASE LocationDirective
  <2>1. ctx = "location"
    BY <1>3, Zenon
    DEF LocationDirective, handleCGI_timeout_sec, handleLocationAutoindex, handleLocationRoot,
        handleAlias, handleLocationIndex, LocationText, handleUpload_store, handleRedirect,
        handleCgi, handleAllowedMethods, handleLocationError_page, Handles
  <2>2. Stops \/ LocationSet BY <1>1, <1>3, LocationDirectives
  <2>3. ctx' \in Before \/ ctx' = ctx
    BY <2>2, Zenon DEF Stops, LocationSet, SetsLocation, Passes, Before
  <2> QED BY <2>1, <2>3 DEF Before
<1>4. CASE parseNodes BY <1>4 DEF parseNodes, Ends, Reject, Before
<1>5. CASE checkServer BY <1>5 DEF checkServer, Ends, Reject, Before
<1>6. CASE checkLocation BY <1>6 DEF checkLocation, Before
<1>7. CASE NoDirective BY <1>7 DEF NoDirective, Ends, Reject, Before
<1> QED BY <1>2, <1>3, <1>4, <1>5, <1>6, <1>7 DEF Parse

(* Nothing listens when the program starts.                                *)
LEMMA NetInitially == ASSUME Init PROVE NetInv
BY DEF Init, ParseInit, NetInv, Conns, Before, After

(* The parser opens no listener.                                           *)
LEMMA ParseKeepsNet ==
  ASSUME ParseInv, NetInv, Parse, UNCHANGED netVars PROVE NetInv'
<1>1. ctx \in {"file", "server", "location"} /\ ctx' \in Before BY ParseComesFirst
<1>2. bindGroups = << >> /\ owners = << >> /\ \A p \in Peer : conn[p] = NoConn /\ DOMAIN conn = Peer
  BY <1>1 DEF NetInv, Conns, Before
<1>3. UNCHANGED <<bindGroups, owners, timeouts, conn>> BY DEF netVars
<1>4. ctx' \notin After BY <1>1 DEF Before, After
<1>5. Conns' BY <1>2, <1>3 DEF NetInv, Conns
<1> QED BY <1>1, <1>2, <1>3, <1>4, <1>5 DEF NetInv, After

(* Grouping gives every address its blocks.                                *)
LEMMA GroupServersKeeps == ASSUME ParseInv, NetInv, GroupServers PROVE NetInv'
<1>1. /\ ctx = "accepted" /\ ctx' = "binding"
      /\ bindGroups' = [a \in Wanted |-> Group(a)]
      /\ UNCHANGED <<nodes, owners, timeouts, conn>>
  BY DEF GroupServers
<1>2. owners = << >> /\ Conns BY <1>1 DEF NetInv, Before
<1>3. \A p \in Peer : conn[p] = NoConn BY <1>1, <1>2 DEF Conns
<1>4. Conns' BY <1>1, <1>2, <1>3 DEF Conns
<1>5. Listed(nodes) /\ Nodes BY DEF ParseInv, Nodes
<1>6. Wanted' = Wanted /\ \A a : BlocksAt(a)' = BlocksAt(a) BY <1>1, BlocksKept
<1>7. DOMAIN bindGroups' = Wanted BY <1>1
<1>8. ASSUME NEW a \in Wanted PROVE Ordered(bindGroups'[a], BlocksAt(a))
  <2>1. Ordered(Group(a), BlocksAt(a)) BY <1>5, GroupOrdered
  <2> QED BY <1>1, <2>1
<1>9. Listed(InKeyOrder') /\ Len(InKeyOrder') \in Nat
  <2>1. InKeyOrder' = Chosen(KeyOrder, Wanted) BY <1>7 DEF InKeyOrder
  <2>2. Listed(InKeyOrder') BY <1>5, <2>1, WantedWritten, KeyOrderTaken
  <2> QED BY <2>2 DEF Listed
<1>10. Grouped'
  <2>1. owners' = << >> /\ Len(<< >>) = 0 /\ Listed(<< >>) BY <1>1, <1>2 DEF Listed
  <2>2. \A a \in Wanted : Ordered(bindGroups'[a], BlocksAt(a)') BY <1>6, <1>8
  <2>3. (\A a \in Wanted : Ordered(bindGroups[a], BlocksAt(a)))'
    BY <1>6, <2>2, Zenon DEF Ordered, Listed
  <2>4. (Listed(owners) /\ Len(owners) <= Len(InKeyOrder))' BY <1>9, <2>1 DEF Listed
  <2>5. (\A l \in 1 .. Len(owners) : Ordered(owners[l], BlocksAt(InKeyOrder[l])))' BY <2>1
  <2> QED BY <1>6, <1>7, <2>3, <2>4, <2>5, Zenon DEF Grouped
<1> QED BY <1>1, <1>4, <1>10 DEF NetInv, Before, After

(* Groups stay while blocks and listeners do.                              *)
LEMMA GroupedKept == ASSUME Grouped, UNCHANGED <<nodes, bindGroups, owners>> PROVE Grouped'
<1>1. Wanted' = Wanted /\ \A a : BlocksAt(a)' = BlocksAt(a) BY BlocksKept
<1>2. InKeyOrder' = InKeyOrder BY DEF InKeyOrder
<1>3. (\A a \in Wanted : Ordered(bindGroups[a], BlocksAt(a)))'
  <2>1. \A a \in Wanted : Ordered(bindGroups'[a], BlocksAt(a)') BY <1>1 DEF Grouped
  <2> QED BY <1>1, <2>1, Zenon DEF Ordered, Listed
<1>4. (\A l \in 1 .. Len(owners) : Ordered(owners[l], BlocksAt(InKeyOrder[l])))'
  <2>1. \A l \in 1 .. Len(owners) : Ordered(owners[l], BlocksAt(InKeyOrder[l])) BY DEF Grouped
  <2>2. \A l : BlocksAt(InKeyOrder[l])' = BlocksAt(InKeyOrder[l]) BY <1>2 DEF BlocksAt, Address
  <2> QED BY <2>1, <2>2 DEF Ordered, Listed
<1>5. (Listed(owners) /\ Len(owners) <= Len(InKeyOrder))' BY <1>2 DEF Grouped, Listed
<1> QED BY <1>1, <1>3, <1>4, <1>5 DEF Grouped

(* Nothing is connected before the loop runs.                              *)
LEMMA StillUnconnected ==
  ASSUME NetInv, ctx # "running", UNCHANGED conn PROVE Conns' /\ \A p \in Peer : conn[p] = NoConn
BY DEF NetInv, Conns

(* The next listener gets the group of the next address.                   *)
LEMMA OpenListenerKeeps == ASSUME ParseInv, NetInv, OpenListener PROVE NetInv'
<1> DEFINE n == Len(owners)
<1>1. /\ ctx = "binding" /\ n < Len(InKeyOrder)
      /\ owners' = Append(owners, bindGroups[InKeyOrder[n + 1]])
      /\ UNCHANGED <<ctx, nodes, bindGroups, timeouts, conn>>
  BY DEF OpenListener, NextAddress, parseVars
<1>2. Grouped BY <1>1 DEF NetInv, After
<1>3. Conns' BY <1>1, StillUnconnected
<1>4. /\ DOMAIN bindGroups = Wanted /\ \A a \in Wanted : Ordered(bindGroups[a], BlocksAt(a))
      /\ Listed(owners) /\ n \in Nat
      /\ \A l \in 1 .. n : Ordered(owners[l], BlocksAt(InKeyOrder[l]))
  BY <1>2 DEF Grouped, Listed
<1>5. PICK K : K = InKeyOrder OBVIOUS
<1>6. Listed(K) /\ ToSet(K) = Wanted /\ Len(K) \in Nat /\ DOMAIN K = 1 .. Len(K)
  <2>1. K = Chosen(KeyOrder, Wanted) BY <1>4, <1>5 DEF InKeyOrder
  <2>2. Wanted \in SUBSET Addresses BY WantedWritten DEF ParseInv
  <2>3. Listed(K) /\ ToSet(K) = Wanted BY <2>1, <2>2, KeyOrderTaken
  <2> QED BY <2>3 DEF Listed
<1>7. K[n + 1] \in Wanted
  <2>1. n + 1 \in DOMAIN K BY <1>1, <1>4, <1>5, <1>6
  <2> QED BY <1>6, <2>1 DEF ToSet
<1> HIDE DEF n
<1>8. PICK t : t = Append(owners, bindGroups[K[n + 1]]) OBVIOUS
<1>9. /\ Listed(t) /\ Len(t) = n + 1 /\ t[n + 1] = bindGroups[K[n + 1]]
      /\ \A l \in 1 .. n : t[l] = owners[l]
  BY <1>4, <1>8, Appended DEF n
<1>10. owners' = t /\ InKeyOrder' = K /\ Wanted' = Wanted
  BY <1>1, <1>5, <1>8, BlocksKept DEF InKeyOrder
<1>11. ASSUME NEW l \in 1 .. n + 1 PROVE Ordered(t[l], BlocksAt(K[l]))
  <2>1. CASE l \in 1 .. n BY <1>4, <1>5, <1>9, <2>1
  <2>2. CASE l = n + 1 BY <1>4, <1>7, <1>9, <2>2
  <2> QED BY <1>4, <2>1, <2>2
<1>12. (\A a \in Wanted : Ordered(bindGroups[a], BlocksAt(a)))'
  <2>1. \A a : BlocksAt(a)' = BlocksAt(a) BY <1>1, BlocksKept
  <2>2. \A a \in Wanted : Ordered(bindGroups'[a], BlocksAt(a)') BY <1>1, <1>4, <2>1
  <2> QED BY <1>10, <2>2, Zenon DEF Ordered, Listed
<1>13. (\A l \in 1 .. Len(owners) : Ordered(owners[l], BlocksAt(InKeyOrder[l])))'
  <2>1. \A l : BlocksAt(InKeyOrder[l])' = BlocksAt(K[l]) BY <1>1, <1>10 DEF BlocksAt, Address
  <2>2. Len(owners') = n + 1 BY <1>9, <1>10
  <2>3. \A l \in 1 .. Len(owners') : Ordered(owners'[l], BlocksAt(InKeyOrder[l])')
    BY <1>10, <1>11, <2>1, <2>2
  <2> QED BY <2>3, Zenon DEF Ordered, Listed
<1>14. (Listed(owners) /\ Len(owners) <= Len(InKeyOrder))'
  BY <1>1, <1>4, <1>5, <1>6, <1>9, <1>10 DEF Listed
<1>15. Grouped' BY <1>1, <1>4, <1>10, <1>12, <1>13, <1>14 DEF Grouped
<1> QED BY <1>1, <1>3, <1>15 DEF NetInv, Before, After

(* A failure leaves the listeners as they are.                             *)
LEMMA OpenFailsKeeps == ASSUME ParseInv, NetInv, OpenFails PROVE NetInv'
<1>1. /\ ctx = "binding" /\ ctx' = "ended"
      /\ UNCHANGED <<nodes, bindGroups, owners, timeouts, conn>>
  BY DEF OpenFails, Ends, netVars
<1>2. Grouped' BY <1>1, GroupedKept DEF NetInv, After
<1>3. \A p \in Peer : conn[p] = NoConn BY <1>1, StillUnconnected
<1>4. Conns' BY <1>1, <1>3 DEF NetInv, Conns
<1> QED BY <1>1, <1>2, <1>4 DEF NetInv, Before, After

(* Listeners are complete when the loop runs.                              *)
LEMMA BuildTimeoutListKeeps == ASSUME ParseInv, NetInv, buildTimeoutList PROVE NetInv'
<1>1. /\ ctx = "binding" /\ ctx' = "running" /\ Len(owners) = Len(InKeyOrder)
      /\ timeouts' = [l \in 1 .. Min({Len(owners), Len(nodes)}) |-> nodes[l].client_timeout_sec]
      /\ UNCHANGED <<nodes, bindGroups, owners, conn>>
  BY DEF buildTimeoutList, TimeoutOf
<1>2. Grouped' BY <1>1, GroupedKept DEF NetInv, After
<1>3. \A p \in Peer : conn[p] = NoConn BY <1>1, StillUnconnected
<1>4. Conns' BY <1>1, <1>3 DEF NetInv, Conns
<1>5. InKeyOrder' = InKeyOrder BY <1>1 DEF InKeyOrder
<1>6. Running' BY <1>1, <1>5 DEF Running
<1> QED BY <1>1, <1>2, <1>4, <1>6 DEF NetInv, Before, After

(* While the loop runs, only one connection changes at a time.             *)
LEMMA ConnChanges ==
  ASSUME NetInv, ctx = "running",
         UNCHANGED <<ctx, nodes, bindGroups, owners, timeouts>>,
         NEW p \in Peer, NEW k, k = NoConn \/ Connected(k),
         DOMAIN conn' = Peer, conn'[p] = k, \A q \in Peer : q # p => conn'[q] = conn[q]
  PROVE  NetInv'
<1>1. Grouped' BY GroupedKept DEF NetInv, After
<1>2. Running' BY DEF NetInv, Running, InKeyOrder
<1>3. ASSUME NEW q \in Peer PROVE conn'[q] = NoConn \/ Connected(conn'[q])
  BY DEF NetInv, Conns
<1>4. ASSUME NEW q \in Peer PROVE conn'[q] = NoConn \/ Connected(conn[q])'
  <2>1. PICK c : c = conn'[q] OBVIOUS
  <2>2. c = NoConn \/ Connected(c)' BY <1>3, <2>1, ConnectedKept
  <2> QED BY <2>1, <2>2 DEF Connected
<1>5. Conns' BY <1>4 DEF Conns
<1> QED BY <1>1, <1>2, <1>5 DEF NetInv, Before, After

(* A connection gets its listener's timeout.                               *)
LEMMA AcceptKeeps == ASSUME NetInv, acceptClients PROVE NetInv'
<1>1. PICK p \in Peer, l \in DOMAIN owners :
        /\ conn[p] = NoConn
        /\ conn' = [conn EXCEPT ![p] =
             [NoConn EXCEPT !.listener = l,
                            !.timeout = IF l \in DOMAIN timeouts THEN timeouts[l] ELSE 0]]
  BY DEF acceptClients
<1>2. PICK t : t = IF l \in DOMAIN timeouts THEN timeouts[l] ELSE 0 OBVIOUS
<1>3. PICK k : k = [NoConn EXCEPT !.listener = l, !.timeout = t] OBVIOUS
<1>4. k = [listener |-> l, timeout |-> t, server |-> None, lines |-> << >>]
  BY <1>3 DEF NoConn
<1>5. Connected(k) BY <1>2, <1>4 DEF Connected, ConnFields
<1>6. conn' = [conn EXCEPT ![p] = k] /\ DOMAIN conn = Peer BY <1>1, <1>2, <1>3 DEF NetInv, Conns
<1>7. ctx = "running" /\ UNCHANGED <<ctx, nodes, bindGroups, owners, timeouts>>
  BY DEF acceptClients, parseVars
<1>8. DOMAIN conn' = Peer /\ conn'[p] = k /\ \A q \in Peer : q # p => conn'[q] = conn[q]
  BY <1>6
<1> QED BY <1>5, <1>7, <1>8, ConnChanges

(* The first request picks among its listener's blocks.                    *)
LEMMA RequestKeeps == ASSUME NetInv, Request PROVE NetInv'
<1>1. PICK p \in Peer, h \in HeaderBlocks :
        /\ conn[p].listener # None /\ conn[p].server = None
        /\ conn' = [conn EXCEPT ![p].lines = h,
             ![p].server = vhostPicker(Candidates(conn[p].listener), getHostValue(h))]
  BY DEF Request
<1>2. PICK c : c = conn[p] OBVIOUS
<1>3. PICK v : v = vhostPicker(owners[c["listener"]], getHostValue(h)) OBVIOUS
<1>4. PICK k : k = [c EXCEPT !["lines"] = h, !["server"] = v] OBVIOUS
<1>5. DOMAIN conn = Peer BY DEF NetInv, Conns
<1>6. conn' = [conn EXCEPT ![p].lines = h, ![p].server = v]
  BY <1>1, <1>2, <1>3 DEF Candidates
<1>7. DOMAIN conn' = Peer /\ conn'[p] = k /\ \A q \in Peer : q # p => conn'[q] = conn[q]
  BY <1>2, <1>4, <1>5, <1>6
<1>8. c # NoConn BY <1>1, <1>2 DEF NoConn
<1>9. Connected(c) BY <1>2, <1>8 DEF NetInv, Conns
<1>10. /\ DOMAIN k = ConnFields /\ k["lines"] = h /\ k["server"] = v
       /\ k["listener"] = c["listener"] /\ k["timeout"] = c["timeout"]
  <2>1. DOMAIN c = ConnFields BY <1>9 DEF Connected
  <2>2. PICK d : d = [c EXCEPT !["lines"] = h] OBVIOUS
  <2>3. Changed(c, "lines", h, d) BY <2>1, <2>2, FieldSet DEF ConnFields
  <2>4. k = [d EXCEPT !["server"] = v] /\ DOMAIN d = ConnFields
    BY <1>4, <2>1, <2>2
  <2>5. Changed(d, "server", v, k) BY <2>4, FieldSet DEF ConnFields
  <2> QED BY <2>1, <2>3, <2>4, <2>5 DEF Changed, ConnFields
<1>11. Connected(k) BY <1>3, <1>9, <1>10 DEF Connected
<1>12. ctx = "running" /\ UNCHANGED <<ctx, nodes, bindGroups, owners, timeouts>>
  BY DEF Request, parseVars
<1> QED BY <1>7, <1>11, <1>12, ConnChanges

(* A closed connection is none.                                            *)
LEMMA CloseKeeps == ASSUME NetInv, CloseClient PROVE NetInv'
<1>1. PICK p \in Peer : conn' = [conn EXCEPT ![p] = NoConn] BY DEF CloseClient
<1>2. ctx = "running" /\ UNCHANGED <<ctx, nodes, bindGroups, owners, timeouts>>
  BY DEF CloseClient, parseVars
<1>3. DOMAIN conn = Peer BY DEF NetInv, Conns
<1>4. DOMAIN conn' = Peer /\ conn'[p] = NoConn /\ \A q \in Peer : q # p => conn'[q] = conn[q]
  BY <1>1, <1>3
<1> QED BY <1>2, <1>4, ConnChanges

(* Every step of the program keeps what listeners and connections have.    *)
LEMMA NetInvKept == ASSUME ParseInv, NetInv, [Next]_vars PROVE NetInv'
<1>1. CASE UNCHANGED vars
  <2>1. UNCHANGED <<ctx, nodes, bindGroups, owners, timeouts, conn>>
    BY <1>1 DEF vars, parseVars, netVars
  <2>2. ctx \in After => Grouped' BY <2>1, GroupedKept DEF NetInv
  <2>3. ctx = "running" => Running' BY <2>1 DEF NetInv, Running, InKeyOrder
  <2>4. Conns'
    <3>1. ASSUME NEW p \in Peer
          PROVE  conn'[p] = NoConn \/ (ctx = "running" /\ Connected(conn[p])')
      <4>1. PICK c : c = conn[p] OBVIOUS
      <4>2. c = NoConn \/ (ctx = "running" /\ Connected(c)')
        BY <2>1, <4>1, ConnectedKept DEF NetInv, Conns
      <4> QED BY <2>1, <4>1, <4>2 DEF Connected
    <3> QED BY <2>1, <3>1 DEF NetInv, Conns
  <2> QED BY <2>1, <2>2, <2>3, <2>4 DEF NetInv, Before, After
<1>2. CASE Parse /\ UNCHANGED netVars BY <1>2, ParseKeepsNet
<1> QED BY <1>1, <1>2, GroupServersKeeps, OpenListenerKeeps, OpenFailsKeeps,
           BuildTimeoutListKeeps, AcceptKeeps, RequestKeeps, CloseKeeps DEF Next

-----------------------------------------------------------------------------
(* What listeners and connections are promised                             *)

(* Listeners have the blocks of their addresses, connections what their    *)
(* listener gave them and the server their first request picked.           *)
THEOREM ListenersCorrect == Spec => [](ParseInv /\ NetInv)
<1>1. Init => ParseInv /\ NetInv BY ParseInitially, NetInitially
<1>2. (ParseInv /\ NetInv) /\ [Next]_vars => (ParseInv /\ NetInv)'
  BY ParseInvKept, NetInvKept
<1> QED BY <1>1, <1>2, PTL DEF Spec

(* What a connection picks is in its listener's group.                     *)
LEMMA PickedFromGroup ==
  ASSUME NEW g, NEW T \in SUBSET Nat, Ordered(g, T), T # {}, NEW host
  PROVE  LET k == vhostPicker(g, host) IN
         /\ k \in T
         /\ \/ /\ host \in ToSet(nodes[k].name)
               /\ \A i \in T : host \in ToSet(nodes[i].name) => k <= i
            \/ /\ k = g[1] /\ \A i \in T : host \notin ToSet(nodes[i].name)
<1> DEFINE S == Named(g, host)
<1>1. Len(g) \in Nat /\ DOMAIN g = 1 .. Len(g) /\ ToSet(g) = T
      /\ \A m, n \in DOMAIN g : m < n => g[m] < g[n]
  BY DEF Ordered, Listed
<1>2. \A m \in DOMAIN g : g[m] \in T BY <1>1 DEF ToSet
<1>3. ASSUME NEW i \in T PROVE \E m \in DOMAIN g : g[m] = i BY <1>1 DEF ToSet
<1>4. PICK k : k = vhostPicker(g, host) OBVIOUS
<1>5. CASE S = {}
  <2>1. k = g[1] BY <1>4, <1>5 DEF vhostPicker
  <2>2. \A m \in DOMAIN g : host \notin ToSet(nodes[g[m]].name) BY <1>5 DEF Named
  <2>3. 1 \in DOMAIN g
    <3>1. PICK i : i \in T OBVIOUS
    <3>2. PICK m \in DOMAIN g : g[m] = i BY <1>3, <3>1
    <3>3. m \in 1 .. Len(g) BY <1>1, <3>2
    <3> QED BY <1>1, <3>3
  <2>4. ASSUME NEW i \in T PROVE host \notin ToSet(nodes[i].name) BY <1>3, <2>2
  <2> QED BY <1>2, <1>4, <2>1, <2>3, <2>4
<1>6. CASE S # {}
  <2>1. S \in SUBSET Nat BY <1>1 DEF Named
  <2>2. PICK m : m = Min(S) OBVIOUS
  <2>3. m \in S /\ \A n \in S : m <= n
    <3> HIDE DEF S
    <3> QED BY <1>6, <2>1, <2>2, Least
  <2>4. k = g[m] BY <1>4, <1>6, <2>2 DEF vhostPicker
  <2>5. m \in DOMAIN g /\ host \in ToSet(nodes[g[m]].name) BY <2>3 DEF Named
  <2>6. ASSUME NEW i \in T, host \in ToSet(nodes[i].name) PROVE k <= i
    <3>1. PICK n \in DOMAIN g : g[n] = i BY <1>3
    <3>2. n \in S BY <2>6, <3>1 DEF Named
    <3>3. m = n \/ m < n BY <1>1, <2>3, <2>5, <3>1, <3>2
    <3>4. g[m] = g[n] \/ g[m] < g[n] BY <1>1, <2>5, <3>1, <3>3
    <3>5. g[m] \in Nat /\ g[n] \in Nat BY <1>2, <2>5, <3>1
    <3> QED BY <2>4, <3>1, <3>4, <3>5
  <2> QED BY <1>2, <1>4, <2>4, <2>5, <2>6
<1> QED BY <1>5, <1>6

(* The group of a listener of an open connection.                          *)
LEMMA ListenerGroup ==
  ASSUME ParseInv, NetInv, NEW l \in DOMAIN owners
  PROVE  \E a \in Wanted : Ordered(owners[l], BlocksAt(a)) /\ BlocksAt(a) # {}
                           /\ BlocksAt(a) \in SUBSET Nat /\ BlocksAt(a) \subseteq DOMAIN nodes
<1>1. ctx \in After /\ Grouped
  <2>1. DOMAIN << >> = {} OBVIOUS
  <2> QED BY <2>1 DEF NetInv
<1>2. PICK K : K = InKeyOrder OBVIOUS
<1>3. /\ DOMAIN bindGroups = Wanted /\ DOMAIN owners = 1 .. Len(owners)
      /\ Len(owners) \in Nat /\ Len(owners) <= Len(K) /\ Ordered(owners[l], BlocksAt(K[l]))
  BY <1>1, <1>2 DEF Grouped, Listed
<1>4. Listed(K) /\ ToSet(K) = Wanted /\ Len(K) \in Nat /\ DOMAIN K = 1 .. Len(K)
  <2>1. K = Chosen(KeyOrder, Wanted) BY <1>2, <1>3 DEF InKeyOrder
  <2>2. Wanted \in SUBSET Addresses BY WantedWritten DEF ParseInv
  <2>3. Listed(K) /\ ToSet(K) = Wanted BY <2>1, <2>2, KeyOrderTaken
  <2> QED BY <2>3 DEF Listed
<1>5. K[l] \in Wanted
  <2>1. l \in DOMAIN K BY <1>3, <1>4
  <2> QED BY <1>4, <2>1 DEF ToSet
<1>6. BlocksAt(K[l]) # {} BY <1>5 DEF Wanted, BlocksAt
<1>7. DOMAIN nodes = 1 .. Len(nodes) /\ Len(nodes) \in Nat BY DEF ParseInv, Nodes, Listed
<1>8. BlocksAt(K[l]) \subseteq DOMAIN nodes /\ BlocksAt(K[l]) \in SUBSET Nat
  BY <1>7 DEF BlocksAt
<1> QED BY <1>3, <1>5, <1>6, <1>8

(* The cursor is at the tokens, groups are of servers there are, and so is *)
(* the server of a connection: unless it has none yet, one of its group.   *)
LEMMA ListenersTyped == ASSUME ParseInv, NetInv PROVE TypeOK
<1>1. ctx \in {"file", "server", "location", "rejected", "undefined", "accepted", "binding",
               "running", "ended"}
  BY DEF NetInv, Before, After
<1>2. first \in 1 .. Len(tokens) + 1 /\ second \in DOMAIN tokens \cup {1}
  BY DEF ParseInv, Cursor
<1>3. {srv.port, srv.backlog, srv.client_timeout_sec, srv.max_body_size, srv.header_cap,
       srv.body_ram_threshold, loc.cgi_timeout_sec} \subseteq Ints
  <2>1. \A f \in ServerFields : InRange(f, srv[f]) BY DEF ParseInv, Current, Limited
  <2>2. Unset \in Ints BY IntAssumption DEF Unset, Ints
  <2>3. Ports \subseteq Ints BY IntAssumption DEF Ports, Ints
  <2>4. 512 .. IntMax \subseteq Ints /\ 0 .. IntMax \subseteq Ints
    BY IntAssumption DEF Ints
  <2>5. 1 .. SOMAXCONN \subseteq Ints /\ 0 .. MaxTimeout \subseteq Ints
    <3>1. SOMAXCONN <= IntMax BY IntAssumption DEF SOMAXCONN
    <3>2. MaxTimeout <= IntMax BY IntAssumption DEF MaxTimeout
    <3> QED BY <3>1, <3>2, BoundsTyped, IntAssumption DEF Ints
  <2>6. srv["port"] \in Ints
    <3>1. InRange("port", srv["port"]) BY <2>1 DEF ServerFields
    <3> QED BY <2>2, <2>3, <3>1 DEF InRange
  <2>7. srv["backlog"] \in Ints
    <3>1. InRange("backlog", srv["backlog"]) BY <2>1 DEF ServerFields
    <3> QED BY <2>2, <2>5, <3>1 DEF InRange
  <2>8. srv["client_timeout_sec"] \in Ints
    <3>1. InRange("client_timeout_sec", srv["client_timeout_sec"]) BY <2>1 DEF ServerFields
    <3> QED BY <2>2, <2>5, <3>1 DEF InRange
  <2>9. srv["max_body_size"] \in Ints
    <3>1. InRange("max_body_size", srv["max_body_size"]) BY <2>1 DEF ServerFields
    <3> QED BY <3>1 DEF InRange
  <2>10. srv["header_cap"] \in Ints
    <3>1. InRange("header_cap", srv["header_cap"]) BY <2>1 DEF ServerFields
    <3> QED BY <2>2, <2>4, <3>1 DEF InRange
  <2>11. srv["body_ram_threshold"] \in Ints
    <3>1. InRange("body_ram_threshold", srv["body_ram_threshold"]) BY <2>1 DEF ServerFields
    <3> QED BY <2>2, <2>4, <3>1 DEF InRange
  <2>12. loc["cgi_timeout_sec"] \in Ints BY DEF ParseInv, LocTyped
  <2> QED BY <2>6, <2>7, <2>8, <2>9, <2>10, <2>11, <2>12
<1>4. \A i \in DOMAIN specs : specs[i].start <= specs[i].end /\ specs[i].end <= Len(tokens)
  <2>1. DOMAIN tokens = 1 .. Len(tokens) BY TokensListed DEF ParseInv, Listed
  <2> QED BY <2>1 DEF ParseInv, Specs, Spanned
<1>5. \A a \in DOMAIN bindGroups : ToSet(bindGroups[a]) \subseteq DOMAIN nodes
  <2>1. CASE ctx \in Before
    <3>1. bindGroups = << >> BY <2>1 DEF NetInv
    <3> QED BY <3>1
  <2>2. CASE ctx \in After
    BY <2>2 DEF NetInv, Grouped, Ordered, BlocksAt
  <2> QED BY <2>1, <2>2 DEF NetInv
<1>6. ASSUME NEW p \in Peer
      PROVE  /\ conn[p].listener \in {None} \cup DOMAIN owners
             /\ conn[p].server \in {None} \cup DOMAIN nodes
  <2>1. PICK k : k = conn[p] OBVIOUS
  <2>2. CASE k = NoConn BY <2>1, <2>2 DEF NoConn
  <2>3. CASE k # NoConn
    <3>1. Connected(k) BY <2>1, <2>3 DEF NetInv, Conns
    <3>2. k["listener"] \in DOMAIN owners BY <3>1 DEF Connected
    <3>3. CASE k["server"] = None BY <2>1, <3>2, <3>3
    <3>4. CASE k["server"] # None
      <4>1. PICK a \in Wanted :
              /\ Ordered(owners[k["listener"]], BlocksAt(a)) /\ BlocksAt(a) # {}
              /\ BlocksAt(a) \in SUBSET Nat /\ BlocksAt(a) \subseteq DOMAIN nodes
        BY <3>2, ListenerGroup
      <4>2. PICK g : g = owners[k["listener"]] OBVIOUS
      <4>3. PICK host : host = getHostValue(k["lines"]) OBVIOUS
      <4>4. k["server"] = vhostPicker(g, host) BY <3>1, <3>4, <4>2, <4>3 DEF Connected
      <4>5. vhostPicker(g, host) \in BlocksAt(a) BY <4>1, <4>2, PickedFromGroup
      <4> QED BY <2>1, <3>2, <4>1, <4>4, <4>5
    <3> QED BY <3>3, <3>4
  <2> QED BY <2>2, <2>3
<1> QED BY <1>1, <1>2, <1>3, <1>4, <1>5, <1>6, Zenon DEF TypeOK

(* The cursor stays at the tokens, limits are ints, groups and connections *)
(* refer to servers there are.                                             *)
THEOREM ListenersTypeOK == Spec => []TypeOK
BY ListenersCorrect, ListenersTyped, PTL

(* Unless the search comes upon another line first, what it finds is the   *)
(* value of Host.                                                          *)
LEMMA HostFound ==
  ASSUME NEW h \in HeaderBlocks, ~Masked(h) PROVE getHostValue(h) = HostOf(h)
<1> DEFINE F == Hits(h)
           H == Hosts(h)
<1>1. DOMAIN h = 1 .. Len(h) /\ Len(h) \in Nat BY HostAssumption
<1>2. H \subseteq F BY HostAssumption DEF Hosts, Hits
<1>3. F \in SUBSET Nat /\ H \in SUBSET Nat BY <1>1 DEF Hosts, Hits
<1>4. \A i \in F : i \notin H => \E j \in H : ~(i < j) BY DEF Masked
<1>5. getHostValue(h) = IF F = {} THEN NoHost ELSE h[Min(F)].found BY DEF getHostValue
<1>6. HostOf(h) = IF H = {} THEN NoHost ELSE h[Min(H)].found BY DEF HostOf
<1> HIDE DEF F, H
<1>7. CASE F = {} BY <1>2, <1>5, <1>6, <1>7
<1>8. CASE F # {}
  <2>1. PICK m : m = Min(F) OBVIOUS
  <2>2. m \in F /\ \A n \in F : m <= n BY <1>3, <1>8, <2>1, Least
  <2>3. m \in H
    <3>1. SUFFICES ASSUME m \notin H PROVE FALSE OBVIOUS
    <3>2. PICK j \in H : ~(m < j) BY <1>4, <2>2, <3>1
    <3>3. m <= j /\ m \in Nat /\ j \in Nat BY <1>2, <1>3, <2>2, <3>2
    <3> QED BY <3>1, <3>2, <3>3
  <2>4. PICK n : n = Min(H) OBVIOUS
  <2>5. n \in H /\ \A j \in H : n <= j BY <1>3, <2>3, <2>4, Least
  <2>6. m = n
    <3>1. m <= n /\ n <= m BY <1>2, <2>2, <2>3, <2>5
    <3>2. m \in Nat /\ n \in Nat BY <1>3, <2>3, <2>5
    <3> QED BY <3>1, <3>2
  <2> QED BY <1>5, <1>6, <1>8, <2>1, <2>3, <2>4, <2>6
<1> QED BY <1>7, <1>8

(* The server of a connection is of its listener's group, and the one its  *)
(* first request's Host asks for.                                          *)
LEMMA ConnectionsServed == ASSUME ParseInv, NetInv PROVE ServedByItsHost
<1> SUFFICES ASSUME NEW p \in Peer, conn[p].server # None
    PROVE  LET k == conn[p] IN
           /\ k.server \in ToSet(owners[k.listener])
           /\ Masked(k.lines) \/ AsksFor(k.server, owners[k.listener], HostOf(k.lines))
  BY DEF ServedByItsHost
<1>1. PICK k : k = conn[p] OBVIOUS
<1>2. k # NoConn BY <1>1 DEF NoConn
<1>3. Connected(k) BY <1>1, <1>2 DEF NetInv, Conns
<1>4. k["listener"] \in DOMAIN owners /\ k["server"] # None BY <1>1, <1>3 DEF Connected
<1>5. PICK g : g = owners[k["listener"]] OBVIOUS
<1>6. PICK a \in Wanted :
        Ordered(g, BlocksAt(a)) /\ BlocksAt(a) # {} /\ BlocksAt(a) \in SUBSET Nat
  BY <1>4, <1>5, ListenerGroup
<1>7. PICK T : T = BlocksAt(a) OBVIOUS
<1>8. PICK h : h = k["lines"] OBVIOUS
<1>9. PICK host : host = getHostValue(h) OBVIOUS
<1>10. PICK s : s = k["server"] OBVIOUS
<1>11. h \in HeaderBlocks /\ s = vhostPicker(g, host)
  BY <1>3, <1>4, <1>5, <1>8, <1>9, <1>10 DEF Connected
<1>12. /\ s \in T
       /\ \/ /\ host \in ToSet(nodes[s].name)
             /\ \A i \in T : host \in ToSet(nodes[i].name) => s <= i
          \/ s = g[1] /\ \A i \in T : host \notin ToSet(nodes[i].name)
  BY <1>6, <1>7, <1>11, PickedFromGroup
<1>13. ToSet(g) = T BY <1>6, <1>7 DEF Ordered
<1>14. Masked(h) \/ host = HostOf(h) BY <1>9, <1>11, HostFound
<1>15. AsksFor(s, g, host) BY <1>12, <1>13, Zenon DEF AsksFor
<1>16. conn[p].server = s /\ conn[p].lines = h /\ owners[conn[p].listener] = g
  BY <1>1, <1>5, <1>8, <1>10
<1> QED BY <1>12, <1>13, <1>14, <1>15, <1>16, Zenon

(* vhostPicker_ serves a connection by the block its first request's Host  *)
(* asks for, among its listener's, whatever the configuration, as long as  *)
(* nothing else in the request is taken for that header.                   *)
THEOREM ServersByHost == Spec => []ServedByItsHost
BY ListenersCorrect, ConnectionsServed, PTL

(* Bind keys are in an order.                                              *)
LEMMA KeyedOneWay ==
  ASSUME NEW a, NEW b, KeyedBefore(a, b) PROVE a # b /\ ~KeyedBefore(b, a)
<1>1. PICK m \in DOMAIN KeyOrder, n \in DOMAIN KeyOrder :
        m < n /\ KeyOrder[m] = a /\ KeyOrder[n] = b
  BY KeyAssumption DEF KeyedBefore
<1>2. DOMAIN KeyOrder \in SUBSET Nat BY KeyAssumption
<1>3. \A i, j \in DOMAIN KeyOrder : KeyOrder[i] = KeyOrder[j] => i = j BY KeyAssumption
<1>4. a # b BY <1>1, <1>2, <1>3
<1>5. SUFFICES ASSUME KeyedBefore(b, a) PROVE FALSE BY <1>4
<1>6. PICK i \in DOMAIN KeyOrder, j \in DOMAIN KeyOrder :
        i < j /\ KeyOrder[i] = b /\ KeyOrder[j] = a
  BY <1>5, KeyAssumption DEF KeyedBefore
<1>7. i = n /\ j = m BY <1>1, <1>3, <1>6
<1> QED BY <1>1, <1>2, <1>6, <1>7

(* The listeners are opened in that order, one for each address.           *)
LEMMA OpenedInOrder ==
  ASSUME ParseInv, DOMAIN bindGroups = Wanted, NEW K, K = InKeyOrder
  PROVE  /\ DOMAIN K = 1 .. Len(K) /\ Len(K) \in Nat /\ ToSet(K) = Wanted
         /\ \A l, m \in DOMAIN K : l < m => KeyedBefore(K[l], K[m])
<1>1. K = Chosen(KeyOrder, Wanted) BY DEF InKeyOrder
<1>2. Wanted \in SUBSET Addresses BY WantedWritten DEF ParseInv
<1>3. Listed(K) /\ ToSet(K) = Wanted BY <1>1, <1>2, KeyOrderTaken
<1>4. DOMAIN K = 1 .. Len(K) /\ Len(K) \in Nat BY <1>3 DEF Listed
<1>5. KeyOrder \in Seq(ToSet(KeyOrder)) BY KeyAssumption
<1>6. Selected(K, KeyOrder, Len(KeyOrder), Wanted) BY <1>1, <1>5, ChosenSelected
<1>7. ASSUME NEW l \in DOMAIN K, NEW m \in DOMAIN K, l < m PROVE KeyedBefore(K[l], K[m])
  <2>1. l \in 1 .. Len(K) /\ m \in 1 .. Len(K) BY <1>4
  <2>2. PICK i \in 1 .. Len(KeyOrder), j \in 1 .. Len(KeyOrder) :
          i < j /\ K[l] = KeyOrder[i] /\ K[m] = KeyOrder[j]
    BY <1>6, <1>7, <2>1, Zenon DEF Selected
  <2>3. DOMAIN KeyOrder = 1 .. Len(KeyOrder) /\ Len(KeyOrder) \in Nat BY KeyAssumption
  <2>4. i \in DOMAIN KeyOrder /\ j \in i + 1 .. Len(KeyOrder) BY <2>2, <2>3
  <2> QED BY <2>2, <2>4 DEF KeyedBefore
<1> QED BY <1>3, <1>4, <1>7

(* Where the file has the blocks in that order, listener l is block l's:   *)
(* the first place where it is not would be out of order on one side.      *)
LEMMA ListenersAsWritten ==
  ASSUME ParseInv, DOMAIN bindGroups = Wanted, FileInKeyOrder, NEW K, K = InKeyOrder
  PROVE  \A l \in DOMAIN K : l \in DOMAIN nodes /\ K[l] = Address(l)
<1> DEFINE Apart == {l \in DOMAIN K : l \notin DOMAIN nodes \/ K[l] # Address(l)}
<1>1. /\ DOMAIN K = 1 .. Len(K) /\ Len(K) \in Nat /\ ToSet(K) = Wanted
      /\ \A l, m \in DOMAIN K : l < m => KeyedBefore(K[l], K[m])
  BY OpenedInOrder
<1>2. DOMAIN nodes = 1 .. Len(nodes) /\ Len(nodes) \in Nat BY DEF ParseInv, Nodes, Listed
<1>3. SUFFICES ASSUME Apart # {} PROVE FALSE OBVIOUS
<1>4. Apart \in SUBSET Nat BY <1>1
<1>5. PICK m : m = Min(Apart) OBVIOUS
<1>6. m \in Apart /\ \A n \in Apart : m <= n
  <2> HIDE DEF Apart
  <2> QED BY <1>3, <1>4, <1>5, Least
<1>7. m \in DOMAIN K /\ (m \notin DOMAIN nodes \/ K[m] # Address(m)) BY <1>6
<1>8. ASSUME NEW r \in DOMAIN K, r < m PROVE r \in DOMAIN nodes /\ K[r] = Address(r)
  <2>1. r \in Nat /\ m \in Nat BY <1>1, <1>7
  <2>2. r \notin Apart BY <1>6, <1>8, <2>1
  <2> QED BY <2>2
<1>9. PICK r \in DOMAIN nodes : K[m] = Address(r)
  <2>1. K[m] \in Wanted BY <1>1, <1>7 DEF ToSet
  <2> QED BY <2>1 DEF Wanted
<1>10. m \in Nat /\ r \in Nat /\ m >= 1 /\ r >= 1 BY <1>1, <1>2, <1>7, <1>9
<1>11. ~(r < m)
  <2>1. SUFFICES ASSUME r < m PROVE FALSE OBVIOUS
  <2>2. r \in DOMAIN K BY <1>1, <1>7, <1>10, <2>1
  <2>3. KeyedBefore(K[r], K[m]) BY <1>1, <1>7, <2>1, <2>2
  <2>4. K[r] # K[m] BY <2>3, KeyedOneWay
  <2> QED BY <1>8, <1>9, <2>1, <2>2, <2>4
<1>12. r # m BY <1>7, <1>9
<1>13. m < r /\ m \in DOMAIN nodes /\ K[m] # Address(m)
  BY <1>2, <1>7, <1>9, <1>10, <1>11, <1>12
<1>14. KeyedBefore(Address(m), K[m]) BY <1>9, <1>13 DEF FileInKeyOrder
<1>15. PICK q \in DOMAIN K : K[q] = Address(m) BY <1>1, <1>13 DEF ToSet, Wanted
<1>16. q \in Nat BY <1>1
<1>17. CASE q < m
  <2>1. q \in DOMAIN nodes /\ K[q] = Address(q) BY <1>8, <1>17
  <2>2. KeyedBefore(Address(q), Address(m)) BY <1>13, <1>17, <2>1 DEF FileInKeyOrder
  <2>3. Address(q) # Address(m) BY <2>2, KeyedOneWay
  <2> QED BY <1>15, <2>1, <2>3
<1>18. CASE q > m
  <2>1. KeyedBefore(K[m], K[q]) BY <1>1, <1>7, <1>16, <1>10, <1>18
  <2>2. KeyedBefore(K[m], Address(m)) BY <1>15, <2>1
  <2> QED BY <1>14, <2>2, KeyedOneWay
<1> QED BY <1>10, <1>13, <1>15, <1>16, <1>17, <1>18

(* The block a connection picked is its listener's, which is the one of    *)
(* that index.                                                             *)
LEMMA TimeoutsOfServers == ASSUME ParseInv, NetInv PROVE TimeoutOfItsServer
<1> SUFFICES ASSUME NEW p \in Peer, conn[p].server # None, FileInKeyOrder
             PROVE  conn[p].timeout = nodes[conn[p].server].client_timeout_sec
  BY DEF TimeoutOfItsServer
<1>1. PICK k : k = conn[p] OBVIOUS
<1>2. k # NoConn BY <1>1 DEF NoConn
<1>3. Connected(k) /\ ctx = "running" BY <1>1, <1>2 DEF NetInv, Conns
<1>4. PICK l : l = k["listener"] OBVIOUS
<1>5. PICK s : s = k["server"] OBVIOUS
<1>6. PICK g : g = owners[l] OBVIOUS
<1>7. l \in DOMAIN owners /\ s # None BY <1>1, <1>3, <1>4, <1>5 DEF Connected
<1>8. PICK host : host = getHostValue(k["lines"]) OBVIOUS
<1>9. s = vhostPicker(g, host) BY <1>3, <1>4, <1>5, <1>6, <1>7, <1>8 DEF Connected
<1>10. Running /\ Grouped BY <1>3 DEF NetInv, After
<1>11. PICK K : K = InKeyOrder OBVIOUS
<1>12. /\ DOMAIN bindGroups = Wanted
       /\ DOMAIN owners = 1 .. Len(owners) /\ Len(owners) \in Nat /\ Len(owners) = Len(K)
       /\ Ordered(g, BlocksAt(K[l]))
  BY <1>6, <1>7, <1>10, <1>11 DEF Grouped, Running, Listed
<1>13. DOMAIN K = 1 .. Len(K) BY <1>11, <1>12, OpenedInOrder
<1>14. \A m \in DOMAIN K : m \in DOMAIN nodes /\ K[m] = Address(m)
  BY <1>11, <1>12, ListenersAsWritten
<1>15. DOMAIN nodes = 1 .. Len(nodes) /\ Len(nodes) \in Nat BY DEF ParseInv, Nodes, Listed
<1>16. l \in DOMAIN nodes /\ K[l] = Address(l) BY <1>7, <1>12, <1>13, <1>14
<1>17. s \in BlocksAt(K[l])
  <2>1. PICK T : T = BlocksAt(K[l]) OBVIOUS
  <2>2. T \in SUBSET Nat /\ l \in T BY <1>15, <1>16, <2>1 DEF BlocksAt
  <2>3. vhostPicker(g, host) \in T BY <1>12, <2>1, <2>2, PickedFromGroup
  <2> QED BY <1>9, <2>1, <2>3
<1>18. s \in DOMAIN nodes /\ Address(s) = Address(l) BY <1>16, <1>17 DEF BlocksAt
<1>19. s = l
  <2>1. ~(s < l) /\ ~(l < s) BY <1>16, <1>18, KeyedOneWay DEF FileInKeyOrder
  <2> QED BY <1>15, <1>16, <1>18, <2>1
<1>20. l \in DOMAIN timeouts
  <2>1. PICK m : m = Min({Len(owners), Len(nodes)}) OBVIOUS
  <2>2. m \in {Len(owners), Len(nodes)}
    <3>1. {Len(owners), Len(nodes)} \in SUBSET Nat /\ {Len(owners), Len(nodes)} # {}
      BY <1>12, <1>15
    <3> QED BY <2>1, <3>1, Least
  <2>3. l \in 1 .. m BY <1>7, <1>12, <1>15, <1>16, <2>2
  <2> QED BY <1>10, <2>1, <2>3 DEF Running
<1>21. timeouts[l] = nodes[l].client_timeout_sec BY <1>10, <1>20 DEF Running
<1>22. k["timeout"] = timeouts[l] BY <1>3, <1>4, <1>20 DEF Connected
<1> QED BY <1>1, <1>5, <1>19, <1>21, <1>22

(* Where a file has one block for each address, in the order in which      *)
(* setupListenerSockets opens them, buildTimeoutList and vhostPicker_      *)
(* agree on the block of every connection.                                 *)
THEOREM TimeoutsInKeyOrder == Spec => []TimeoutOfItsServer
BY ListenersCorrect, TimeoutsOfServers, PTL

(* Every block is in the group of its address, which one listener has.     *)
LEMMA BlocksListened == ASSUME ParseInv, NetInv PROVE OneListenerEach
<1> SUFFICES ASSUME ctx = "running", NEW i \in DOMAIN nodes
    PROVE /\ Cardinality({l \in DOMAIN owners : i \in ToSet(owners[l])}) = 1
          /\ \A l \in DOMAIN owners : i \in ToSet(owners[l]) =>
               /\ ToSet(owners[l]) = {j \in DOMAIN nodes : Address(j) = Address(i)}
               /\ \A m, n \in DOMAIN owners[l] : m < n => owners[l][m] < owners[l][n]
  BY DEF OneListenerEach
<1>1. Running /\ Grouped BY DEF NetInv, After
<1>2. PICK K : K = InKeyOrder OBVIOUS
<1>3. /\ DOMAIN bindGroups = Wanted /\ DOMAIN owners = 1 .. Len(owners)
      /\ Len(owners) = Len(K)
      /\ \A l \in DOMAIN owners : Ordered(owners[l], BlocksAt(K[l]))
  BY <1>1, <1>2 DEF Grouped, Running, Listed
<1>4. /\ ToSet(K) = Wanted /\ DOMAIN K = 1 .. Len(K)
      /\ \A l, m \in DOMAIN K : K[l] = K[m] => l = m
  <2>1. K = Chosen(KeyOrder, Wanted) BY <1>2, <1>3 DEF InKeyOrder
  <2>2. Wanted \in SUBSET Addresses BY WantedWritten DEF ParseInv
  <2>3. Listed(K) /\ ToSet(K) = Wanted /\ \A l, m \in DOMAIN K : K[l] = K[m] => l = m
    BY <2>1, <2>2, KeyOrderTaken
  <2> QED BY <2>3 DEF Listed
<1>5. PICK a : a = Address(i) OBVIOUS
<1>6. a \in Wanted BY <1>5 DEF Wanted
<1>7. PICK l \in DOMAIN owners : K[l] = a BY <1>3, <1>4, <1>6 DEF ToSet
<1>8. ASSUME NEW m \in DOMAIN owners PROVE i \in ToSet(owners[m]) <=> m = l
  <2>1. ToSet(owners[m]) = BlocksAt(K[m]) BY <1>3 DEF Ordered
  <2>2. i \in BlocksAt(K[m]) <=> K[m] = a BY <1>5 DEF BlocksAt
  <2> QED BY <1>3, <1>4, <1>7, <2>1, <2>2
<1>9. {m \in DOMAIN owners : i \in ToSet(owners[m])} = {l} BY <1>7, <1>8
<1>10. Cardinality({l}) = 1 BY FS_Singleton
<1>11. /\ ToSet(owners[l]) = BlocksAt(a)
       /\ \A m, n \in DOMAIN owners[l] : m < n => owners[l][m] < owners[l][n]
  BY <1>3, <1>7 DEF Ordered
<1>12. BlocksAt(a) = {j \in DOMAIN nodes : Address(j) = Address(i)} BY <1>5 DEF BlocksAt
<1> QED BY <1>8, <1>9, <1>10, <1>11, <1>12

(* When the loop runs, setupListenerSockets has opened one listener for    *)
(* each address with the blocks of it, in the order of the file.           *)
THEOREM EachBlockListens == Spec => []OneListenerEach
BY ListenersCorrect, BlocksListened, PTL

-----------------------------------------------------------------------------
(* The words of a file                                                     *)

(* A key is what follows punctuation, or is first.                         *)
Punctuated(p) == Type(p) \in DOMAIN Punctuation

(* Keys and the word server, where it opens a block.                       *)
Words == Keys \cup Blocks

(* What tokenAppend makes of a text depends on the one before it.          *)
LEMMA TokenTypes ==
  ASSUME Tokens, NEW p \in DOMAIN tokens
  PROVE  /\ p \in Nat /\ p >= 1
         /\ tokens[p].type \in DOMAIN Punctuation \cup {"Key", "Argument"}
         /\ p = 1 \/ Punctuated(p - 1) => tokens[p].type # "Argument"
         /\ tokens[p].type = "Key" => p = 1 \/ Punctuated(p - 1)
         /\ tokens[p].text = "server" => tokens[p].type \in {"Key", "Argument"}
<1>1. PICK f \in Files : tokens = tokenise(f) BY DEF Tokens
<1>2. f \in Seq(ToSet(f)) BY FileAssumption
<1>3. Len(f) \in Nat /\ DOMAIN f = 1 .. Len(f) BY <1>2
<1>4. DOMAIN tokens = DOMAIN f
      /\ \A i \in DOMAIN f : tokens[i].text = f[i] /\ tokens[i].type = TokenType(f, i)
  BY <1>1 DEF tokenise
<1>5. p \in Nat /\ p >= 1 BY <1>3, <1>4
<1>6. \A i : IsPunctuation(f[i]) <=> TokenType(f, i) \in DOMAIN Punctuation
  <2>1. ASSUME NEW i, IsPunctuation(f[i]) PROVE TokenType(f, i) \in DOMAIN Punctuation
    BY <2>1 DEF TokenType, IsPunctuation
  <2>2. ASSUME NEW i, ~IsPunctuation(f[i]) PROVE TokenType(f, i) \notin DOMAIN Punctuation
    BY <2>2 DEF TokenType, Punctuation
  <2> QED BY <2>1, <2>2
<1>7. ~IsPunctuation(f[p]) =>
        tokens[p].type = IF p = 1 \/ IsPunctuation(f[p - 1]) THEN "Key" ELSE "Argument"
  BY <1>4 DEF TokenType
<1>8. p # 1 => (IsPunctuation(f[p - 1]) <=> Punctuated(p - 1))
  <2>1. CASE p # 1
    <3>1. p - 1 \in DOMAIN f BY <1>3, <1>4, <2>1
    <3> QED BY <1>4, <1>6, <3>1 DEF Punctuated, Type
  <2> QED BY <2>1
<1>9. "Key" \notin DOMAIN Punctuation /\ "Argument" \notin DOMAIN Punctuation
  BY DEF Punctuation
<1>10. tokens[p].type = TokenType(f, p) /\ tokens[p].text = f[p] BY <1>4
<1>11. ~IsPunctuation("server")
  <2>1. DOMAIN Punctuation = {"BlockStart", "BlockEnd", "SimpleEnd"} BY DEF Punctuation
  <2>2. /\ Punctuation["BlockStart"] = "{" /\ Punctuation["BlockEnd"] = "}"
        /\ Punctuation["SimpleEnd"] = ";"
    BY DEF Punctuation
  <2> QED BY <2>1, <2>2, Zenon DEF IsPunctuation
<1> QED BY <1>5, <1>6, <1>7, <1>8, <1>9, <1>10, <1>11

(* No key follows a key or an argument.                                    *)
LEMMA NoKeyBehind ==
  ASSUME Tokens, NEW p \in Nat, Type(p) \in {"Key", "Argument"} PROVE Type(p + 1) # "Key"
<1> SUFFICES ASSUME Type(p + 1) = "Key" PROVE FALSE OBVIOUS
<1>1. p + 1 \in DOMAIN tokens /\ p \in DOMAIN tokens BY TypedToken
<1>2. tokens[p + 1].type = "Key" BY <1>1 DEF Type
<1>3. p >= 1 /\ p + 1 # 1 /\ (p + 1) - 1 = p BY <1>1, TokenTypes
<1>4. Punctuated(p) BY <1>1, <1>2, <1>3, TokenTypes
<1> QED BY <1>4 DEF Punctuated, Punctuation

(* Punctuation is not a word.                                              *)
LEMMA NoWord == ASSUME NEW p \in Words PROVE Type(p) = "Key" /\ p \in DOMAIN tokens
BY DEF Words, Keys, Blocks, Type

(* What stoi takes is a number nobody has written before.                  *)
LEMMA StoiRead ==
  ASSUME NEW text, NEW value, stoi(text, value) # Bad
  PROVE  value = Unset /\ stoi(text, value) = Number[text] /\ Number[text] \in 0 .. IntMax
         /\ text \in DOMAIN Number
<1>1. text \in DOMAIN Number => Number[text] \in -IntMax - 1 .. IntMax BY IntAssumption
<1> QED BY <1>1, IntAssumption DEF stoi

(* Products that an int holds are not changed.                             *)
LEMMA WrapHeld == ASSUME NEW n \in 0 .. IntMax PROVE Wrap(n) = n
<1>1. PICK k : k = IntMax + 1 OBVIOUS
<1>2. k \in Nat /\ k > 0 /\ n + k \in Nat /\ n + k < 2 * k /\ 2 * k \in Nat
  BY <1>1, IntAssumption
<1>3. (n + k) % (2 * k) = n + k BY <1>2
<1>4. n + IntMax + 1 = n + k BY <1>1, IntAssumption
<1> QED BY <1>1, <1>2, <1>3, <1>4, IntAssumption DEF Wrap

(* What Stoi gives is what the argument says.                              *)
LEMMA StoiAsWritten ==
  ASSUME NEW value, Stoi(value) # Bad
  PROVE  LET n == ValueOf(Text(Argument)) IN
         IsArgument(Argument) /\ value = Unset /\ n \in Nat /\ Stoi(value) = n
<1>1. PICK t : t = Text(Argument) OBVIOUS
<1>2. IsArgument(Argument) /\ Stoi(value) = stoi(t, value) BY <1>1 DEF Stoi
<1>3. /\ value = Unset /\ Stoi(value) = Number[t] /\ Number[t] \in 0 .. IntMax
      /\ t \in DOMAIN Number
  BY <1>2, StoiRead
<1>4. t \notin DOMAIN Suffixed BY <1>3, IntAssumption
<1>5. ValueOf(t) = Number[t] * 1 BY <1>4 DEF ValueOf, NumberPart
<1> QED BY <1>1, <1>2, <1>3, <1>5

(* So is what Size gives, as long as an int holds it.                      *)
LEMMA SizeAsWritten ==
  ASSUME NEW value, Size(value) # Bad
  PROVE  LET n == ValueOf(Text(Argument)) IN
         IsArgument(Argument) /\ value = Unset /\ n \in Nat /\ (n <= IntMax => Size(value) = n)
<1>1. PICK t : t = Text(Argument) OBVIOUS
<1>2. PICK m : m = stoi(NumberPart(t), value) OBVIOUS
<1>3. IsArgument(Argument) /\ m # Bad /\ Size(value) = Wrap(m * Factor(t))
  BY <1>1, <1>2 DEF Size
<1>4. value = Unset /\ m = Number[NumberPart(t)] /\ m \in 0 .. IntMax BY <1>2, <1>3, StoiRead
<1>5. ValueOf(t) = m * Factor(t) BY <1>4 DEF ValueOf, Factor
<1>6. Factor(t) \in {1, 1000, 1000000} BY IntAssumption DEF Factor
<1>7. PICK n : n = m * Factor(t) OBVIOUS
<1>8. n \in Nat BY <1>4, <1>6, <1>7, IntAssumption
<1>9. n <= IntMax => Wrap(n) = n BY <1>8, WrapHeld, IntAssumption
<1> QED BY <1>1, <1>3, <1>4, <1>5, <1>7, <1>8, <1>9

-----------------------------------------------------------------------------
(* What a directive does to the words that are handled                     *)

(* The limits that are followed to the end, and the keys that set them.    *)
Watched == {"max_body_size", "header_cap", "client_timeout_sec"}
KeyOf ==
  [max_body_size |-> "client_max_body_size", header_cap |-> "client_header_buffer_size",
   client_timeout_sec |-> "client_timeout_sec"]
IsKeyOf(key, f) == f \in Watched /\ key = KeyOf[f]

(* The parser gives up.                                                    *)
Halts == ctx' \in {"rejected", "undefined"} /\ UNCHANGED <<tokens, handled>>

(* A directive has been handled: the cursor passes its key and no other.   *)
Runs(last) ==
  /\ Type(first) = "Key" /\ Text(first) # "server"
  /\ \A q \in first + 1 .. last : Type(q) # "Key"
  /\ Type(last + 1) \in {"SimpleEnd", "BlockEnd"}
  /\ first' = last + 2 /\ handled' = handled \cup {first}
  /\ UNCHANGED <<tokens, second, ctx, serverEnd, nodes>>

(* The key at p gives its limit a value, if it has one, and leaves the     *)
(* others alone.                                                           *)
Wrote(ts, p, s, t) ==
  \A f \in Watched :
    LET n == ValueOf(ts[p + 1].text) IN
    IF ts[p].text = KeyOf[f]
      THEN s[f] = Unset /\ n \in Nat /\ (n <= IntMax => t[f] = n)
      ELSE t[f] = s[f]

ServerRuns ==
  /\ ctx = "server" /\ Wrote(tokens, first, srv, srv') /\ UNCHANGED specs
  /\ \E last \in Nat : last >= first /\ Runs(last)
LocationRuns ==
  /\ ctx = "location" /\ (\A f \in Watched : Text(first) # KeyOf[f]) /\ UNCHANGED <<srv, specs>>
  /\ \E last \in Nat : last >= first /\ Runs(last)

(* What a handler is called for.                                           *)
LEMMA Handled ==
  ASSUME NEW block, NEW key, Handles(block, key)
  PROVE  /\ ctx = block /\ Type(first) = "Key" /\ Text(first) = key
         /\ first \in DOMAIN tokens /\ tokens[first].text = key /\ Argument \in DOMAIN tokens
<1>1. /\ ctx = block /\ Type(first) = "Key" /\ Text(first) = key
      /\ Type(Argument) # "undefined"
  BY DEF Handles
<1>2. first \in DOMAIN tokens /\ Argument \in DOMAIN tokens BY <1>1, TypedToken
<1> QED BY <1>1, <1>2 DEF Text

(* A handler that does not throw and what it is followed by.               *)
LEMMA SetServerRuns ==
  ASSUME NEW key, key # "server", Handles("server", key),
         NEW f, NEW v, NEW ok, NEW last,
         ok => \A q \in first + 1 .. last : Type(q) # "Key",
         SetServer(ok, f, v, last)
  PROVE  Halts \/ (ok /\ Runs(last) /\ srv' = [srv EXCEPT ![f] = v] /\ UNCHANGED specs)
<1>1. Type(first) = "Key" /\ Text(first) # "server" BY Handled
<1> QED BY <1>1 DEF SetServer, Finish, Reject, Ends, Halts, Runs

(* The same for the handlers of a Location.                                *)
LEMMA SetLocationRuns ==
  ASSUME NEW key, key \in LocationKeys, Handles("location", key),
         NEW f, NEW v, NEW ok, NEW last \in Nat, last >= first,
         ok => \A q \in first + 1 .. last : Type(q) # "Key",
         SetLocation(ok, f, v, last)
  PROVE  Halts \/ LocationRuns
<1>1. Type(first) = "Key" /\ Text(first) = key /\ ctx = "location" BY Handled
<1>2. key # "server" /\ \A g \in Watched : key # KeyOf[g]
  BY DEF LocationKeys, Watched, KeyOf
<1>3. Halts \/ (Runs(last) /\ UNCHANGED <<srv, specs>>)
  BY <1>1, <1>2 DEF SetLocation, Finish, Reject, Ends, Halts, Runs
<1> QED BY <1>1, <1>2, <1>3 DEF LocationRuns

(* A field that is not watched leaves those alone that are.                *)
LEMMA OthersWritten ==
  ASSUME NEW s, Limited(s), NEW f, f \notin Watched, NEW v, NEW t, t = [s EXCEPT ![f] = v],
         NEW ts, NEW p, \A g \in Watched : ts[p].text # KeyOf[g]
  PROVE  Wrote(ts, p, s, t)
<1>1. ASSUME NEW g \in Watched PROVE t[g] = s[g]
  <2>1. g # f /\ g \in DOMAIN s BY DEF Watched, Limited, ServerFields
  <2> QED BY <2>1
<1> QED BY <1>1, Zenon DEF Wrote

(* A watched field has its value from its key.                             *)
LEMMA WatchedWritten ==
  ASSUME NEW s, Limited(s), NEW f \in Watched, NEW v, NEW t, t = [s EXCEPT ![f] = v],
         NEW ts, NEW p, ts[p].text = KeyOf[f], s[f] = Unset, NEW n, n = ValueOf(ts[p + 1].text),
         n \in Nat, n <= IntMax => v = n
  PROVE  Wrote(ts, p, s, t)
<1>1. ASSUME NEW g \in Watched, g # f PROVE t[g] = s[g] /\ KeyOf[g] # KeyOf[f]
  <2>1. g # f /\ g \in DOMAIN s BY <1>1 DEF Watched, Limited, ServerFields
  <2>2. KeyOf[g] # KeyOf[f] BY <1>1 DEF Watched, KeyOf
  <2> QED BY <2>1, <2>2
<1>2. t[f] = v
  <2>1. f \in DOMAIN s BY DEF Watched, Limited, ServerFields
  <2> QED BY <2>1
<1> QED BY <1>1, <1>2, Zenon DEF Wrote

(* The token behind a key is none.                                         *)
LEMMA ArgumentNoKey ==
  ASSUME Tokens, first \in Nat, Type(first) = "Key"
  PROVE  Argument \in Nat /\ Argument >= first /\ \A q \in first + 1 .. Argument : Type(q) # "Key"
<1>1. Type(first + 1) # "Key" BY NoKeyBehind
<1>2. \A q \in first + 1 .. Argument : q = first + 1 BY DEF Argument
<1> QED BY <1>1, <1>2 DEF Argument

(* Nor is the one behind an argument.                                      *)
LEMMA SecondNoKey ==
  ASSUME Tokens, first \in Nat, Type(first) = "Key", IsArgument(Argument)
  PROVE  Argument + 1 \in Nat /\ Argument + 1 >= first
         /\ \A q \in first + 1 .. Argument + 1 : Type(q) # "Key"
<1>1. Argument \in Nat /\ Argument = first + 1 BY DEF Argument
<1>2. Type(Argument) = "Argument" BY DEF IsArgument
<1>3. Type(Argument + 1) # "Key" BY <1>1, <1>2, NoKeyBehind
<1>4. \A q \in first + 1 .. Argument + 1 : q = Argument \/ q = Argument + 1 BY <1>1
<1> QED BY <1>1, <1>2, <1>3, <1>4

(* All arguments are arguments.                                            *)
LEMMA ArgumentsNoKeys ==
  ASSUME Tokens, first \in Nat, Type(Argument) # "undefined"
  PROVE  /\ first + Len(Arguments) \in Nat /\ first + Len(Arguments) >= first
         /\ \A q \in first + 1 .. first + Len(Arguments) : Type(q) # "Key"
<1> DEFINE S == {q \in Argument .. Len(tokens) + 1 : ~IsArgument(q)}
<1>1. Argument = first + 1 /\ Argument \in Nat /\ Argument \in DOMAIN tokens
  BY TypedToken DEF Argument
<1>2. Listed(tokens) BY TokensListed
<1>3. Argument <= Len(tokens) + 1 /\ Len(tokens) \in Nat BY <1>1, <1>2 DEF Listed
<1>4. ArgumentEnd(Argument) \in Argument .. Len(tokens) + 1 BY <1>1, <1>2, <1>3, ArgumentsEnd
<1>5. PICK e : e = ArgumentEnd(Argument) OBVIOUS
<1>6. PICK n : n = e - Argument OBVIOUS
<1>7. n \in Nat /\ e \in Nat BY <1>1, <1>3, <1>4, <1>5, <1>6
<1>8. Arguments = [i \in 1 .. n |-> Text(first + i)] BY <1>5, <1>6 DEF Arguments
<1>9. Len(Arguments) = n BY <1>7, <1>8
<1>10. \A q \in S : e <= q
  <2>1. S \in SUBSET Nat BY <1>1, <1>3
  <2>2. e = Min(S) BY <1>5 DEF ArgumentEnd
  <2>3. Len(tokens) + 1 \in S
    <3>1. Len(tokens) + 1 \notin DOMAIN tokens BY <1>2 DEF Listed
    <3> QED BY <1>1, <1>3, <3>1, ArgumentToken
  <2> HIDE DEF S
  <2> QED BY <2>1, <2>2, <2>3, Least
<1>11. ASSUME NEW q \in first + 1 .. first + n PROVE Type(q) # "Key"
  <2>1. q \in Argument .. Len(tokens) + 1 /\ ~(e <= q)
    BY <1>1, <1>3, <1>4, <1>5, <1>6, <1>7
  <2>2. IsArgument(q) BY <1>10, <2>1
  <2> QED BY <2>2 DEF IsArgument
<1> QED BY <1>7, <1>9, <1>11

(* The handlers that set a field nothing is said about.                    *)
LEMMA OtherServerRuns ==
  ASSUME Tokens, Limited(srv), first \in Nat,
         NEW key, key # "server", \A f \in Watched : key # KeyOf[f],
         Handles("server", key),
         NEW f, f \notin Watched, NEW last \in Nat, last >= first,
         \A q \in first + 1 .. last : Type(q) # "Key",
         \E ok, v : SetServer(ok, f, v, last)
  PROVE  Halts \/ ServerRuns
<1>1. PICK ok, v : SetServer(ok, f, v, last) OBVIOUS
<1>2. Halts \/ (ok /\ Runs(last) /\ srv' = [srv EXCEPT ![f] = v] /\ UNCHANGED specs)
  BY <1>1, SetServerRuns
<1>3. ctx = "server" /\ tokens[first].text = key BY Handled
<1>4. ASSUME srv' = [srv EXCEPT ![f] = v] PROVE Wrote(tokens, first, srv, srv')
  <2>1. \A g \in Watched : tokens[first].text # KeyOf[g] BY <1>3
  <2> QED BY <1>4, <2>1, OthersWritten
<1> QED BY <1>2, <1>3, <1>4, Zenon DEF ServerRuns

(* Of one argument, and of many.                                           *)
LEMMA ServerArgumentRuns ==
  ASSUME Tokens, Limited(srv), first \in Nat,
         NEW key, key # "server", \A f \in Watched : key # KeyOf[f],
         Handles("server", key), NEW f, f \notin Watched,
         \E ok, v : SetServer(ok, f, v, Argument)
  PROVE  Halts \/ ServerRuns
<1>1. Type(first) = "Key" BY Handled
<1>2. PICK last : last = Argument OBVIOUS
<1>3. last \in Nat /\ last >= first /\ \A q \in first + 1 .. last : Type(q) # "Key"
  BY <1>1, <1>2, ArgumentNoKey
<1>4. \E ok, v : SetServer(ok, f, v, last) BY <1>2
<1> QED BY <1>3, <1>4, OtherServerRuns

LEMMA ServerArgumentsRun ==
  ASSUME Tokens, Limited(srv), first \in Nat,
         NEW key, key # "server", \A f \in Watched : key # KeyOf[f],
         Handles("server", key), NEW f, f \notin Watched,
         \E ok, v : SetServer(ok, f, v, first + Len(Arguments))
  PROVE  Halts \/ ServerRuns
<1>1. Type(Argument) # "undefined" BY DEF Handles
<1>2. PICK last : last = first + Len(Arguments) OBVIOUS
<1>3. last \in Nat /\ last >= first /\ \A q \in first + 1 .. last : Type(q) # "Key"
  BY <1>1, <1>2, ArgumentsNoKeys
<1>4. \E ok, v : SetServer(ok, f, v, last) BY <1>2
<1> QED BY <1>3, <1>4, OtherServerRuns

(* The handlers that set what is watched.                                  *)
LEMMA WatchedServerRuns ==
  ASSUME Tokens, Limited(srv), first \in Nat,
         NEW f \in Watched, Handles("server", KeyOf[f]),
         \E ok, v : /\ SetServer(ok, f, v, Argument)
                    /\ ok => LET n == ValueOf(Text(Argument)) IN
                             srv[f] = Unset /\ n \in Nat /\ (n <= IntMax => v = n)
  PROVE  Halts \/ ServerRuns
<1>1. PICK ok, v : /\ SetServer(ok, f, v, Argument)
                   /\ ok => LET n == ValueOf(Text(Argument)) IN
                            srv[f] = Unset /\ n \in Nat /\ (n <= IntMax => v = n)
  OBVIOUS
<1>2. PICK last : last = Argument OBVIOUS
<1>3. /\ ctx = "server" /\ Type(first) = "Key" /\ tokens[first].text = KeyOf[f]
      /\ Argument \in DOMAIN tokens
  BY Handled
<1>4. last \in Nat /\ last >= first /\ \A q \in first + 1 .. last : Type(q) # "Key"
  BY <1>2, <1>3, ArgumentNoKey
<1>5. KeyOf[f] # "server" BY DEF Watched, KeyOf
<1>6. Halts \/ (ok /\ Runs(last) /\ srv' = [srv EXCEPT ![f] = v] /\ UNCHANGED specs)
  BY <1>1, <1>2, <1>4, <1>5, SetServerRuns
<1>7. ASSUME ok, srv' = [srv EXCEPT ![f] = v] PROVE Wrote(tokens, first, srv, srv')
  <2>1. PICK n : n = ValueOf(Text(Argument)) OBVIOUS
  <2>2. srv[f] = Unset /\ n \in Nat /\ (n <= IntMax => v = n) BY <1>1, <1>7, <2>1
  <2>3. n = ValueOf(tokens[first + 1].text) BY <1>3, <2>1 DEF Text, Argument
  <2> QED BY <1>3, <1>7, <2>2, <2>3, WatchedWritten
<1> QED BY <1>3, <1>4, <1>6, <1>7, Zenon DEF ServerRuns

(* The keys of the watched limits.                                         *)
LEMMA WatchedKeys ==
  /\ Watched = {"max_body_size", "header_cap", "client_timeout_sec"}
  /\ KeyOf["max_body_size"] = "client_max_body_size"
  /\ KeyOf["header_cap"] = "client_header_buffer_size"
  /\ KeyOf["client_timeout_sec"] = "client_timeout_sec"
BY DEF Watched, KeyOf

(* host runs like those of one argument, but sets two fields.              *)
LEMMA HostRuns ==
  ASSUME Tokens, Limited(srv), first \in Nat, handleHost PROVE Halts \/ ServerRuns
<1>1. Handles("server", "host") BY DEF handleHost
<1>2. ctx = "server" /\ Type(first) = "Key" /\ Text(first) = "host" /\ tokens[first].text = "host"
  BY <1>1, Handled
<1>3. PICK last : last = Argument OBVIOUS
<1>4. last \in Nat /\ last >= first /\ \A q \in first + 1 .. last : Type(q) # "Key"
  BY <1>2, <1>3, ArgumentNoKey
<1>5. PICK ok, h, n :
        Finish(ok, last, srv' = [srv EXCEPT !.host = h, !.port = n] /\ UNCHANGED <<specs, loc>>)
  BY <1>3 DEF handleHost
<1>6. Halts \/ /\ Runs(last) /\ UNCHANGED specs
               /\ srv' = [srv EXCEPT !["host"] = h, !["port"] = n]
  BY <1>2, <1>4, <1>5 DEF Finish, Reject, Ends, Halts, Runs
<1>7. ASSUME srv' = [srv EXCEPT !["host"] = h, !["port"] = n]
      PROVE  Wrote(tokens, first, srv, srv')
  <2>1. ASSUME NEW g \in Watched PROVE srv'[g] = srv[g] /\ tokens[first].text # KeyOf[g]
    <3>1. g # "host" /\ g # "port" /\ g \in DOMAIN srv BY DEF Watched, Limited, ServerFields
    <3>2. KeyOf[g] # "host" BY WatchedKeys
    <3> QED BY <1>2, <1>7, <3>1, <3>2
  <2> QED BY <2>1, Zenon DEF Wrote
<1> QED BY <1>2, <1>4, <1>6, <1>7, Zenon DEF ServerRuns

(* The directives of one argument, but for the watched ones.               *)
LEMMA ArgumentDirectivesRun ==
  ASSUME Tokens, Limited(srv), first \in Nat,
         handlePort \/ handleBacklog \/ handleBody_ram_threshold \/ handleAutoindex
           \/ handleRoot \/ handleIndex
  PROVE  Halts \/ ServerRuns
<1>1. ASSUME NEW key \in {"listen", "backlog", "body_ram_threshold", "autoindex", "root", "index"},
             NEW f \in {"port", "backlog", "body_ram_threshold", "autoindex", "root", "index"},
             Handles("server", key) /\ \E ok, v : SetServer(ok, f, v, Argument)
      PROVE  Halts \/ ServerRuns
  <2>1. key # "server" /\ (\A g \in Watched : key # KeyOf[g]) /\ f \notin Watched
    BY WatchedKeys
  <2> QED BY <1>1, <2>1, ServerArgumentRuns
<1>2. CASE handlePort
  <2>1. Handles("server", "listen") /\ \E ok, v : SetServer(ok, "port", v, Argument)
    BY <1>2 DEF handlePort
  <2> QED BY <1>1, <2>1
<1>3. CASE handleBacklog
  <2>1. Handles("server", "backlog") /\ \E ok, v : SetServer(ok, "backlog", v, Argument)
    BY <1>3 DEF handleBacklog
  <2> QED BY <1>1, <2>1
<1>4. CASE handleBody_ram_threshold
  <2>1. /\ Handles("server", "body_ram_threshold")
        /\ \E ok, v : SetServer(ok, "body_ram_threshold", v, Argument)
    BY <1>4 DEF handleBody_ram_threshold
  <2> QED BY <1>1, <2>1
<1>5. CASE handleAutoindex
  <2>1. Handles("server", "autoindex") /\ \E ok, v : SetServer(ok, "autoindex", v, Argument)
    BY <1>5 DEF handleAutoindex
  <2> QED BY <1>1, <2>1
<1>6. CASE handleRoot
  <2>1. Handles("server", "root") /\ \E ok, v : SetServer(ok, "root", v, Argument)
    BY <1>6 DEF handleRoot, ServerText
  <2> QED BY <1>1, <2>1
<1>7. CASE handleIndex
  <2>1. Handles("server", "index") /\ \E ok, v : SetServer(ok, "index", v, Argument)
    BY <1>7 DEF handleIndex, ServerText
  <2> QED BY <1>1, <2>1
<1> QED BY <1>2, <1>3, <1>4, <1>5, <1>6, <1>7

(* Those of many.                                                          *)
LEMMA ArgumentsDirectivesRun ==
  ASSUME Tokens, Limited(srv), first \in Nat, handleName \/ handleError_page
  PROVE  Halts \/ ServerRuns
<1>1. ASSUME NEW key \in {"server_name", "error_page"}, NEW f \in {"name", "error_pages"},
             Handles("server", key)
               /\ \E ok, v : SetServer(ok, f, v, first + Len(Arguments))
      PROVE  Halts \/ ServerRuns
  <2>1. key # "server" /\ (\A g \in Watched : key # KeyOf[g]) /\ f \notin Watched
    BY WatchedKeys
  <2> QED BY <1>1, <2>1, ServerArgumentsRun
<1>2. CASE handleName
  <2>1. /\ Handles("server", "server_name")
        /\ \E ok, v : SetServer(ok, "name", v, first + Len(Arguments))
    BY <1>2 DEF handleName
  <2> QED BY <1>1, <2>1
<1>3. CASE handleError_page
  <2>1. /\ Handles("server", "error_page")
        /\ \E ok, v : SetServer(ok, "error_pages", v, first + Len(Arguments))
    BY <1>3 DEF handleError_page
  <2> QED BY <1>1, <2>1
<1> QED BY <1>2, <1>3

(* The watched ones.                                                       *)
LEMMA WatchedDirectivesRun ==
  ASSUME Tokens, Limited(srv), first \in Nat,
         handleClient_timeout_sec \/ handleMax_body_size \/ handleHeader_cap
  PROVE  Halts \/ ServerRuns
<1>1. ASSUME NEW f \in Watched,
             Handles("server", KeyOf[f])
               /\ \E ok, v : /\ SetServer(ok, f, v, Argument)
                             /\ ok => LET n == ValueOf(Text(Argument)) IN
                                      srv[f] = Unset /\ n \in Nat /\ (n <= IntMax => v = n)
      PROVE  Halts \/ ServerRuns
  BY <1>1, WatchedServerRuns
<1>2. CASE handleClient_timeout_sec
  <2>1. PICK n : n = Stoi(srv["client_timeout_sec"]) OBVIOUS
  <2>2. n # Bad => LET m == ValueOf(Text(Argument)) IN
                   srv["client_timeout_sec"] = Unset /\ m \in Nat /\ n = m
    BY <2>1, StoiAsWritten
  <2>3. PICK ok : ok = (n # Bad /\ n <= MaxTimeout) OBVIOUS
  <2>4. SetServer(ok, "client_timeout_sec", n, Argument) /\ Handles("server", "client_timeout_sec")
    BY <1>2, <2>1, <2>3 DEF handleClient_timeout_sec
  <2> QED BY <1>1, <2>2, <2>3, <2>4, WatchedKeys
<1>3. CASE handleMax_body_size
  <2>1. PICK n : n = Size(srv["max_body_size"]) OBVIOUS
  <2>2. n # Bad => LET m == ValueOf(Text(Argument)) IN
                   srv["max_body_size"] = Unset /\ m \in Nat /\ (m <= IntMax => n = m)
    BY <2>1, SizeAsWritten
  <2>3. PICK ok : ok = (n # Bad) OBVIOUS
  <2>4. SetServer(ok, "max_body_size", n, Argument) /\ Handles("server", "client_max_body_size")
    BY <1>3, <2>1, <2>3 DEF handleMax_body_size
  <2> QED BY <1>1, <2>2, <2>3, <2>4, WatchedKeys
<1>4. CASE handleHeader_cap
  <2>1. PICK n : n = Size(srv["header_cap"]) OBVIOUS
  <2>2. n # Bad => LET m == ValueOf(Text(Argument)) IN
                   srv["header_cap"] = Unset /\ m \in Nat /\ (m <= IntMax => n = m)
    BY <2>1, SizeAsWritten
  <2>3. PICK ok : ok = (n # Bad /\ n >= 512) OBVIOUS
  <2>4. SetServer(ok, "header_cap", n, Argument) /\ Handles("server", "client_header_buffer_size")
    BY <1>4, <2>1, <2>3 DEF handleHeader_cap
  <2> QED BY <1>1, <2>2, <2>3, <2>4, WatchedKeys
<1> QED BY <1>2, <1>3, <1>4

(* The directives of a location, by how many arguments they take.          *)
LEMMA LocationArgumentRuns ==
  ASSUME Tokens, first \in Nat, NEW key, key \in LocationKeys, Handles("location", key),
         NEW f, \E ok, v : SetLocation(ok, f, v, Argument)
  PROVE  Halts \/ LocationRuns
<1>1. PICK ok, v : SetLocation(ok, f, v, Argument) OBVIOUS
<1>2. Type(first) = "Key" BY Handled
<1>3. PICK last : last = Argument OBVIOUS
<1>4. last \in Nat /\ last >= first /\ \A q \in first + 1 .. last : Type(q) # "Key"
  BY <1>2, <1>3, ArgumentNoKey
<1> QED BY <1>1, <1>3, <1>4, SetLocationRuns

LEMMA LocationSecondRuns ==
  ASSUME Tokens, first \in Nat, NEW key, key \in LocationKeys, Handles("location", key),
         NEW f, \E ok, v : SetLocation(ok, f, v, Argument + 1) /\ (ok => IsArgument(Argument))
  PROVE  Halts \/ LocationRuns
<1>1. PICK ok, v : SetLocation(ok, f, v, Argument + 1) /\ (ok => IsArgument(Argument))
  OBVIOUS
<1>2. Type(first) = "Key" BY Handled
<1>3. PICK last : last = Argument + 1 OBVIOUS
<1>4. last \in Nat /\ last >= first BY <1>3 DEF Argument
<1>5. ok => \A q \in first + 1 .. last : Type(q) # "Key" BY <1>1, <1>2, <1>3, SecondNoKey
<1> QED BY <1>1, <1>3, <1>4, <1>5, SetLocationRuns

LEMMA LocationArgumentsRun ==
  ASSUME Tokens, first \in Nat, NEW key, key \in LocationKeys, Handles("location", key),
         NEW f, \E ok, v : SetLocation(ok, f, v, first + Len(Arguments))
  PROVE  Halts \/ LocationRuns
<1>1. PICK ok, v : SetLocation(ok, f, v, first + Len(Arguments)) OBVIOUS
<1>2. Type(Argument) # "undefined" BY DEF Handles
<1>3. PICK last : last = first + Len(Arguments) OBVIOUS
<1>4. last \in Nat /\ last >= first /\ \A q \in first + 1 .. last : Type(q) # "Key"
  BY <1>2, <1>3, ArgumentsNoKeys
<1> QED BY <1>1, <1>3, <1>4, SetLocationRuns

(* Whatever a location's directive does, its server is left alone.         *)
LEMMA LocationDirectivesRun ==
  ASSUME Tokens, first \in Nat, LocationDirective PROVE Halts \/ LocationRuns
<1>1. ASSUME NEW key \in {"cgi_timeout_sec", "autoindex", "root", "alias", "index", "upload_store",
                          "return"},
             Handles("location", key) /\ \E f : \E ok, v : SetLocation(ok, f, v, Argument)
      PROVE  Halts \/ LocationRuns
  <2>1. key \in LocationKeys BY DEF LocationKeys
  <2> QED BY <1>1, <2>1, LocationArgumentRuns
<1>2. ASSUME NEW key \in {"return", "cgi"},
             Handles("location", key)
               /\ \E f : \E ok, v : SetLocation(ok, f, v, Argument + 1)
                                      /\ (ok => IsArgument(Argument))
      PROVE  Halts \/ LocationRuns
  <2>1. key \in LocationKeys BY DEF LocationKeys
  <2> QED BY <1>2, <2>1, LocationSecondRuns
<1>3. ASSUME NEW key \in {"allowed_methods", "error_page"},
             Handles("location", key)
               /\ \E f : \E ok, v : SetLocation(ok, f, v, first + Len(Arguments))
      PROVE  Halts \/ LocationRuns
  <2>1. key \in LocationKeys BY DEF LocationKeys
  <2> QED BY <1>3, <2>1, LocationArgumentsRun
<1>4. CASE handleCGI_timeout_sec
  <2>1. /\ Handles("location", "cgi_timeout_sec")
        /\ \E ok, v : SetLocation(ok, "cgi_timeout_sec", v, Argument)
    BY <1>4 DEF handleCGI_timeout_sec
  <2> QED BY <1>1, <2>1
<1>5. CASE handleLocationAutoindex
  <2>1. Handles("location", "autoindex") /\ \E ok, v : SetLocation(ok, "autoindex", v, Argument)
    BY <1>5 DEF handleLocationAutoindex
  <2> QED BY <1>1, <2>1
<1>6. CASE handleLocationRoot
  <2>1. Handles("location", "root") /\ \E ok, v : SetLocation(ok, "root", v, Argument)
    BY <1>6 DEF handleLocationRoot, LocationText
  <2> QED BY <1>1, <2>1
<1>7. CASE handleAlias
  <2>1. Handles("location", "alias") /\ \E ok, v : SetLocation(ok, "alias", v, Argument)
    BY <1>7 DEF handleAlias, LocationText
  <2> QED BY <1>1, <2>1
<1>8. CASE handleLocationIndex
  <2>1. Handles("location", "index") /\ \E ok, v : SetLocation(ok, "index", v, Argument)
    BY <1>8 DEF handleLocationIndex, LocationText
  <2> QED BY <1>1, <2>1
<1>9. CASE handleUpload_store
  <2>1. /\ Handles("location", "upload_store")
        /\ \E ok, v : SetLocation(ok, "upload_store", v, Argument)
    BY <1>9 DEF handleUpload_store
  <2> QED BY <1>1, <2>1
<1>10. CASE handleRedirect
  <2>1. CASE Stoi(Unset) = Bad
    <3>1. Handles("location", "return") /\ \E ok, v : SetLocation(ok, "redirect", v, Argument)
      BY <1>10, <2>1 DEF handleRedirect
    <3> QED BY <1>1, <3>1
  <2>2. CASE Stoi(Unset) # Bad
    <3>1. PICK ok : ok = (loc.redirect.code = Unset /\ IsArgument(Argument)) OBVIOUS
    <3>2. /\ Handles("location", "return")
          /\ \E v : SetLocation(ok, "redirect", v, Argument + 1)
      BY <1>10, <2>2, <3>1 DEF handleRedirect
    <3>3. ok => IsArgument(Argument) BY <3>1
    <3> QED BY <1>2, <3>2, <3>3
  <2> QED BY <2>1, <2>2
<1>11. CASE handleCgi
  <2>1. PICK ok : ok = (IsArgument(Argument) /\ IsArgument(Argument + 1)) OBVIOUS
  <2>2. Handles("location", "cgi") /\ \E v : SetLocation(ok, "cgi", v, Argument + 1)
    BY <1>11, <2>1 DEF handleCgi
  <2>3. ok => IsArgument(Argument) BY <2>1
  <2> QED BY <1>2, <2>2, <2>3
<1>12. CASE handleAllowedMethods
  <2>1. /\ Handles("location", "allowed_methods")
        /\ \E ok, v : SetLocation(ok, "allowedMethods", v, first + Len(Arguments))
    BY <1>12 DEF handleAllowedMethods
  <2> QED BY <1>3, <2>1
<1>13. CASE handleLocationError_page
  <2>1. /\ Handles("location", "error_page")
        /\ \E ok, v : SetLocation(ok, "error_pages", v, first + Len(Arguments))
    BY <1>13 DEF handleLocationError_page
  <2> QED BY <1>3, <2>1
<1> QED BY <1>4, <1>5, <1>6, <1>7, <1>8, <1>9, <1>10, <1>11, <1>12, <1>13 DEF LocationDirective

(* A location's block is passed at once, and its span remembered.          *)
SpanRuns(spec) ==
  /\ ctx = "server" /\ Type(first) = "Key" /\ Text(first) = "location" /\ UNCHANGED srv
  /\ Type(first + 1) # "Key" /\ Type(first + 2) # "Key" /\ Type(spec.end) # "Key"
  /\ spec.start = first + 3 /\ spec.end \in Nat /\ spec.start <= spec.end
  /\ first' = spec.end + 1 /\ handled' = handled \cup {first}
  /\ specs' = Inserted(spec)
  /\ UNCHANGED <<tokens, second, ctx, serverEnd, nodes>>

LEMMA LocationSpans ==
  ASSUME Tokens, first \in Nat, handleLocation PROVE Halts \/ \E spec : SpanRuns(spec)
<1> DEFINE opens == IsArgument(Argument) /\ Type(Argument + 1) = "BlockStart"
           S == {p \in Argument + 1 .. Len(tokens) + 1 :
                   p = second \/ Type(p) \in {"BlockEnd", "undefined"}}
           end == Min(S)
           spec == [path |-> Text(Argument), start |-> Argument + 2, end |-> end]
           ok == opens /\ end # second /\ \A i \in DOMAIN specs : specs[i].path # spec.path
<1>1. /\ Handles("server", "location")
      /\ IF opens /\ Type(end) = "undefined" THEN Ends("undefined")
         ELSE Finish(ok, end - 1, specs' = Inserted(spec) /\ UNCHANGED <<srv, loc>>)
  BY DEF handleLocation
<1>2. /\ Type(first) = "Key" /\ Text(first) = "location" /\ ctx = "server"
      /\ Argument \in DOMAIN tokens /\ Argument \in Nat /\ Argument = first + 1
  BY <1>1, Handled DEF Argument
<1>3. Len(tokens) \in Nat /\ DOMAIN tokens = 1 .. Len(tokens) BY TokensListed DEF Listed
<1>4. S \in SUBSET Nat /\ Len(tokens) + 1 \in S
  <2>1. Type(Len(tokens) + 1) = "undefined" BY <1>3 DEF Type
  <2> QED BY <1>2, <1>3, <2>1
<1> HIDE DEF S
<1>5. end \in S BY <1>4, Least
<1>6. end \in Argument + 1 .. Len(tokens) + 1
      /\ (end = second \/ Type(end) \in {"BlockEnd", "undefined"})
  BY <1>5 DEF S
<1>7. end \in Nat /\ (end - 1) + 1 = end /\ (end - 1) + 2 = end + 1 BY <1>2, <1>3, <1>6
<1> HIDE DEF end
<1>8. spec.start = first + 3 /\ spec.end = end BY <1>2
<1> HIDE DEF spec
<1>9. ASSUME ok
      PROVE  /\ Type(first + 1) # "Key" /\ Type(first + 2) # "Key" /\ Type(end) # "Key"
             /\ first + 3 <= end
  <2>1. Type(first + 1) = "Argument" /\ Type(first + 2) = "BlockStart" /\ end # second
    BY <1>2, <1>9 DEF IsArgument
  <2>2. Type(end) \in {"BlockEnd", "undefined"} BY <1>6, <2>1
  <2>3. end # first + 2 BY <2>1, <2>2
  <2> QED BY <1>2, <1>3, <1>6, <2>1, <2>2, <2>3
<1> HIDE DEF ok, opens
<1>10. \/ Halts
       \/ /\ ok /\ first' = end + 1 /\ specs' = Inserted(spec) /\ UNCHANGED srv
          /\ handled' = handled \cup {first}
          /\ UNCHANGED <<tokens, second, ctx, serverEnd, nodes>>
  BY <1>1, <1>7 DEF Finish, Reject, Ends, Halts
<1>11. ASSUME ok, first' = end + 1, specs' = Inserted(spec), UNCHANGED srv,
              handled' = handled \cup {first},
              UNCHANGED <<tokens, second, ctx, serverEnd, nodes>>
       PROVE  SpanRuns(spec)
  BY <1>2, <1>7, <1>8, <1>9, <1>11 DEF SpanRuns
<1> QED BY <1>10, <1>11

(* The list has the old ones and the new one.                              *)
LEMMA InsertedHolds ==
  ASSUME Specs, NEW spec, NEW t, t = Inserted(spec)
  PROVE  /\ Listed(t)
         /\ \A i \in DOMAIN specs : \E j \in DOMAIN t : t[j] = specs[i]
         /\ \E j \in DOMAIN t : t[j] = spec
         /\ \A j \in DOMAIN t : t[j] = spec \/ \E i \in DOMAIN specs : t[j] = specs[i]
<1> DEFINE S == {i \in DOMAIN specs : PathLen(specs[i]) < PathLen(spec)}
           n == Len(specs)
<1>1. n \in Nat /\ DOMAIN specs = 1 .. n /\ Listed(specs) BY DEF Specs, Listed
<1>2. t = IF S = {} THEN Append(specs, spec) ELSE InsertAt(specs, Min(S), spec)
  BY DEF Inserted, PathLen
<1>3. \E m \in 1 .. n + 1 :
        /\ Listed(t) /\ Len(t) = n + 1 /\ t[m] = spec
        /\ \A i \in 1 .. m - 1 : t[i] = specs[i]
        /\ \A i \in m .. n : t[i + 1] = specs[i]
  <2>1. CASE S = {}
    <3>1. /\ Listed(t) /\ Len(t) = n + 1 /\ t[n + 1] = spec
          /\ \A i \in 1 .. n : t[i] = specs[i]
      BY <1>1, <1>2, <2>1, Appended
    <3> HIDE DEF n, S
    <3>2. n + 1 \in 1 .. n + 1 /\ (n + 1) - 1 = n /\ n + 1 .. n = {} BY <1>1
    <3> QED BY <3>1, <3>2
  <2>2. CASE S # {}
    <3>1. PICK m : m = Min(S) OBVIOUS
    <3>2. S \in SUBSET Nat /\ S \subseteq DOMAIN specs BY <1>1
    <3> HIDE DEF S
    <3>3. m \in S BY <2>2, <3>1, <3>2, Least
    <3>4. m \in 1 .. n /\ t = InsertAt(specs, m, spec) BY <1>1, <1>2, <2>2, <3>1, <3>2, <3>3
    <3>5. /\ Listed(t) /\ Len(t) = n + 1 /\ t[m] = spec
          /\ \A i \in 1 .. m - 1 : t[i] = specs[i]
          /\ \A i \in m .. n : t[i + 1] = specs[i]
      BY <1>1, <3>4, InsertedAt
    <3> QED BY <1>1, <3>4, <3>5
  <2> QED BY <2>1, <2>2
<1> HIDE DEF n, S
<1>4. PICK m \in 1 .. n + 1 :
        /\ Listed(t) /\ Len(t) = n + 1 /\ t[m] = spec
        /\ \A i \in 1 .. m - 1 : t[i] = specs[i]
        /\ \A i \in m .. n : t[i + 1] = specs[i]
  BY <1>3
<1>5. DOMAIN t = 1 .. n + 1 BY <1>4 DEF Listed
<1>6. ASSUME NEW i \in 1 .. n PROVE \E j \in 1 .. n + 1 : t[j] = specs[i]
  <2>1. CASE i < m
    <3>1. i \in 1 .. m - 1 /\ i \in 1 .. n + 1 BY <1>1, <2>1
    <3> QED BY <1>4, <3>1
  <2>2. CASE i >= m
    <3>1. i \in m .. n /\ i + 1 \in 1 .. n + 1 BY <1>1, <2>2
    <3> QED BY <1>4, <3>1
  <2> QED BY <1>1, <2>1, <2>2
<1>7. ASSUME NEW j \in 1 .. n + 1 PROVE t[j] = spec \/ \E i \in 1 .. n : t[j] = specs[i]
  <2>1. CASE j < m
    <3>1. j \in 1 .. m - 1 /\ j \in 1 .. n BY <1>1, <2>1
    <3> QED BY <1>4, <3>1
  <2>2. CASE j > m
    <3>1. j - 1 \in m .. n /\ (j - 1) + 1 = j /\ j - 1 \in 1 .. n BY <1>1, <2>2
    <3> QED BY <1>4, <3>1
  <2> QED BY <1>1, <1>4, <2>1, <2>2
<1>8. \A i \in DOMAIN specs : \E j \in DOMAIN t : t[j] = specs[i]
  BY <1>1, <1>5, <1>6, Zenon
<1>9. \E j \in DOMAIN t : t[j] = spec BY <1>4, <1>5, Zenon
<1>10. \A j \in DOMAIN t : t[j] = spec \/ \E i \in DOMAIN specs : t[j] = specs[i]
  BY <1>1, <1>5, <1>7, Zenon
<1> QED BY <1>4, <1>8, <1>9, <1>10, Zenon

-----------------------------------------------------------------------------
(* Values and the keys that wrote them                                     *)

(* Of the keys in P, none has written v, which is d then, or every one has *)
(* that wrote what an int holds.                                           *)
Obeys(ts, P, v, d) ==
  /\ P = {} => v = d
  /\ \A p \in P : LET n == ValueOf(ts[p + 1].text) IN n \in Nat /\ (n <= IntMax => v = n)

(* The watched limits of s are those that the keys in S wrote.             *)
Complies(ts, S, s, d) ==
  \A f \in Watched : Obeys(ts, {p \in S : ts[p].text = KeyOf[f]}, s[f], d[f])

Unsets == [f \in Watched |-> Unset]

(* A new block has no limits.                                              *)
LEMMA NewComplies == ASSUME NEW ts PROVE Complies(ts, {}, NewServer, Unsets)
<1>1. ASSUME NEW f \in Watched PROVE NewServer[f] = Unset /\ Unsets[f] = Unset
  <2>1. /\ NewServer["max_body_size"] = Unset /\ NewServer["header_cap"] = Unset
        /\ NewServer["client_timeout_sec"] = Unset
    BY DEF NewServer
  <2>2. NewServer[f] = Unset BY <2>1 DEF Watched
  <2> QED BY <2>2 DEF Unsets
<1> QED BY <1>1 DEF Complies, Obeys

(* A key more, and what it wrote.                                          *)
LEMMA WroteComplies ==
  ASSUME NEW ts, NEW S, NEW p, NEW s, NEW t, Complies(ts, S, s, Unsets), Wrote(ts, p, s, t)
  PROVE  Complies(ts, S \cup {p}, t, Unsets)
<1> SUFFICES ASSUME NEW f \in Watched
             PROVE  Obeys(ts, {q \in S \cup {p} : ts[q].text = KeyOf[f]}, t[f], Unsets[f])
  BY DEF Complies
<1> DEFINE P == {q \in S : ts[q].text = KeyOf[f]}
           Q == {q \in S \cup {p} : ts[q].text = KeyOf[f]}
<1>1. Unsets[f] = Unset BY DEF Unsets
<1>2. Obeys(ts, P, s[f], Unset) BY <1>1 DEF Complies
<1>3. CASE ts[p].text # KeyOf[f]
  <2>1. Q = P BY <1>3
  <2>2. t[f] = s[f] BY <1>3 DEF Wrote
  <2> QED BY <1>1, <1>2, <2>1, <2>2, Zenon
<1>4. CASE ts[p].text = KeyOf[f]
  <2>1. PICK n : n = ValueOf(ts[p + 1].text) OBVIOUS
  <2>2. s[f] = Unset /\ n \in Nat /\ (n <= IntMax => t[f] = n) BY <1>4, <2>1 DEF Wrote
  <2>3. Q = P \cup {p} BY <1>4
  <2>4. ASSUME NEW q \in P
        PROVE  LET m == ValueOf(ts[q + 1].text) IN m \in Nat /\ (m <= IntMax => t[f] = m)
    <3>1. PICK m : m = ValueOf(ts[q + 1].text) OBVIOUS
    <3> HIDE DEF P, Q
    <3>2. m \in Nat /\ (m <= IntMax => s[f] = m) BY <1>2, <2>4, <3>1, Zenon DEF Obeys
    <3>3. ~(m <= IntMax) BY <2>2, <3>2 DEF Unset
    <3> QED BY <3>1, <3>2, <3>3
  <2> HIDE DEF P, Q
  <2>5. Obeys(ts, Q, t[f], Unset) BY <2>1, <2>2, <2>3, <2>4 DEF Obeys
  <2> QED BY <1>1, <2>5 DEF Q
<1> QED BY <1>3, <1>4

(* A key that writes none of the limits makes no difference.               *)
LEMMA OtherComplies ==
  ASSUME NEW ts, NEW S, NEW p, NEW s, NEW d, Complies(ts, S, s, d),
         \A f \in Watched : ts[p].text # KeyOf[f]
  PROVE  Complies(ts, S \cup {p}, s, d)
<1> SUFFICES ASSUME NEW f \in Watched
             PROVE  Obeys(ts, {q \in S \cup {p} : ts[q].text = KeyOf[f]}, s[f], d[f])
  BY DEF Complies
<1>1. {q \in S \cup {p} : ts[q].text = KeyOf[f]} = {q \in S : ts[q].text = KeyOf[f]} OBVIOUS
<1>2. Obeys(ts, {q \in S : ts[q].text = KeyOf[f]}, s[f], d[f]) BY DEF Complies
<1> QED BY <1>1, <1>2, Zenon

(* Limits count, not blocks.                                               *)
LEMMA SameComplies ==
  ASSUME NEW ts, NEW S, NEW s, NEW t, NEW d, Complies(ts, S, s, d), \A f \in Watched : t[f] = s[f]
  PROVE  Complies(ts, S, t, d)
BY Zenon DEF Complies

(* What nobody wrote gets its default at the end of the directives.        *)
LEMMA DefaultsComply ==
  ASSUME NEW ts, NEW S, NEW s, Limited(s), Complies(ts, S, s, Unsets), NEW t, t = WithDefaults(s)
  PROVE  Complies(ts, S, t, Defaults)
<1> SUFFICES ASSUME NEW f \in Watched
             PROVE  Obeys(ts, {q \in S : ts[q].text = KeyOf[f]}, t[f], Defaults[f])
  BY DEF Complies
<1>1. PICK P : P = {q \in S : ts[q].text = KeyOf[f]} OBVIOUS
<1>2. Unsets[f] = Unset BY DEF Unsets
<1>3. Obeys(ts, P, s[f], Unset) BY <1>1, <1>2 DEF Complies
<1>4. t[f] = Default(s[f], Defaults[f])
  <2>1. DOMAIN s = ServerFields BY DEF Limited
  <2>2. /\ t["max_body_size"] = Default(s["max_body_size"], Defaults["max_body_size"])
        /\ t["header_cap"] = Default(s["header_cap"], Defaults["header_cap"])
        /\ t["client_timeout_sec"]
             = Default(s["client_timeout_sec"], Defaults["client_timeout_sec"])
    BY <2>1 DEF WithDefaults, ServerFields
  <2> QED BY <2>2 DEF Watched
<1>5. PICK d : d = Defaults[f] OBVIOUS
<1>6. Obeys(ts, P, Default(s[f], d), d)
  <2>1. P = {} => Default(s[f], d) = d BY <1>3 DEF Obeys, Default
  <2>2. ASSUME NEW p \in P
        PROVE  LET n == ValueOf(ts[p + 1].text) IN
               n \in Nat /\ (n <= IntMax => Default(s[f], d) = n)
    <3>1. PICK n : n = ValueOf(ts[p + 1].text) OBVIOUS
    <3>2. n \in Nat /\ (n <= IntMax => s[f] = n) BY <1>3, <2>2, <3>1, Zenon DEF Obeys
    <3>3. n # Unset BY <3>2 DEF Unset
    <3> QED BY <3>1, <3>2, <3>3 DEF Default
  <2> QED BY <2>1, <2>2 DEF Obeys
<1> QED BY <1>1, <1>4, <1>5, <1>6

-----------------------------------------------------------------------------
(* Which block a token is in                                               *)

At(B, p) == Cardinality({b \in B : b <= p})

(* A later token is in the same block or in a later one.                   *)
LEMMA AtGrows ==
  ASSUME NEW B, IsFiniteSet(B), B \subseteq Nat, NEW p \in Nat, NEW q \in Nat, p <= q
  PROVE  At(B, p) \in Nat /\ At(B, q) \in Nat /\ At(B, p) <= At(B, q)
<1> DEFINE P == {b \in B : b <= p}
           Q == {b \in B : b <= q}
<1>1. \A b \in B : b \in Nat OBVIOUS
<1>2. \A b \in B : b <= p => b <= q BY <1>1
<1>3. P \subseteq Q /\ Q \subseteq B BY <1>2, Zenon
<1>4. IsFiniteSet(Q) BY <1>3, FS_Subset
<1>5. IsFiniteSet(P) /\ Cardinality(P) <= Cardinality(Q) BY <1>3, <1>4, FS_Subset
<1>6. Cardinality(P) \in Nat /\ Cardinality(Q) \in Nat BY <1>4, <1>5, FS_CardinalityType
<1> QED BY <1>5, <1>6 DEF At

(* With no block in between, in the same.                                  *)
LEMMA AtStays ==
  ASSUME NEW B, B \subseteq Nat, NEW p \in Nat, NEW q \in Nat, p <= q,
         \A b \in B : p < b => ~(b <= q)
  PROVE  At(B, q) = At(B, p)
<1>1. \A b \in B : b \in Nat OBVIOUS
<1>2. \A b \in B : b <= q <=> b <= p BY <1>1
<1> QED BY <1>2 DEF At

(* A block starts one.                                                     *)
LEMMA AtStart ==
  ASSUME NEW B, IsFiniteSet(B), B \subseteq Nat, NEW o \in B
  PROVE  At(B, o) = Cardinality({b \in B : b < o}) + 1
         /\ Cardinality({b \in B : b < o}) \in Nat
<1> DEFINE P == {b \in B : b < o}
<1>1. \A b \in B : b \in Nat OBVIOUS
<1>2. (\A b \in B : b <= o <=> b < o \/ b = o) /\ ~(o < o) BY <1>1
<1>3. {b \in B : b <= o} = P \cup {o} /\ o \notin P /\ P \subseteq B BY <1>2, Zenon
<1>4. IsFiniteSet(P) BY <1>3, FS_Subset
<1> HIDE DEF P
<1>5. Cardinality(P \cup {o}) = Cardinality(P) + 1 BY <1>3, <1>4, FS_AddElement
<1>6. Cardinality(P) \in Nat BY <1>4, FS_CardinalityType
<1> QED BY <1>3, <1>5, <1>6 DEF At, P

(* Tokens in front of a block's first are in earlier ones.                 *)
LEMMA AtBefore ==
  ASSUME NEW B, IsFiniteSet(B), B \subseteq Nat, NEW o \in B, NEW p \in Nat, p < o
  PROVE  At(B, p) \in Nat /\ At(B, p) <= Cardinality({b \in B : b < o})
<1> DEFINE P == {b \in B : b <= p}
           Q == {b \in B : b < o}
<1>1. (\A b \in B : b \in Nat) /\ o \in Nat OBVIOUS
<1>2. \A b \in B : b <= p => b < o BY <1>1
<1>3. P \subseteq Q /\ Q \subseteq B BY <1>2, Zenon
<1>4. IsFiniteSet(Q) BY <1>3, FS_Subset
<1>5. IsFiniteSet(P) /\ Cardinality(P) <= Cardinality(Q) BY <1>3, <1>4, FS_Subset
<1>6. Cardinality(P) \in Nat BY <1>5, FS_CardinalityType
<1> QED BY <1>5, <1>6 DEF At

(* There are as many blocks as there are tokens, at most.                  *)
LEMMA BlocksFinite ==
  ASSUME Tokens
  PROVE  IsFiniteSet(Blocks) /\ Blocks \subseteq Nat /\ Keys \subseteq Nat
<1>1. Len(tokens) \in Nat /\ DOMAIN tokens = 1 .. Len(tokens) BY TokensListed DEF Listed
<1>2. PICK n \in Nat : n = Len(tokens) BY <1>1
<1>3. IsFiniteSet(1 .. n) BY FS_Interval
<1>4. Blocks \subseteq 1 .. n /\ Keys \subseteq 1 .. n BY <1>1, <1>2 DEF Blocks, Keys
<1>5. IsFiniteSet(Blocks) BY <1>3, <1>4, FS_Subset
<1> QED BY <1>4, <1>5

-----------------------------------------------------------------------------
(* The invariant of what has been read                                     *)

(* Every finished block has what the keys wrote that are in it.            *)
NodesRead(ts, K, B, ns, q) ==
  \A i \in DOMAIN ns : Complies(ts, {p \in K : At(B, p) = i /\ p < q}, ns[i], Defaults)

(* How many blocks begin in front of q, and the keys between two tokens.   *)
Begun(B, q) == Cardinality({b \in B : b < q})
Between(K, o, q) == {p \in K : o < p /\ p < q}

(* p is in the block of a location, that of one listed behind n.           *)
InBody(spec, p) == spec.start <= p /\ p < spec.end
Waiting(n, p) == \E i \in DOMAIN specs : i > n /\ InBody(specs[i], p)

(* The block in the making begins at o.                                    *)
Opens(o) == o \in Blocks /\ Begun(Blocks, o) = Len(nodes)
Read(o) == handled \cup {b \in Blocks : b <= o}

(* Between blocks, everything in front of the cursor has been handled.     *)
FileRead ==
  /\ first = 1 \/ Punctuated(first - 1)
  /\ \A p \in handled : p < first
  /\ \A p \in Keys : p < first => p \in handled
  /\ Begun(Blocks, first) = Len(nodes)
  /\ NodesRead(tokens, Keys, Blocks, nodes, first)

(* In a server block, all but what is in the locations it lists.           *)
ServerRead(o) ==
  /\ Opens(o) /\ o < first
  /\ \A p \in handled : p < first
  /\ \A p \in Words : p < first => p \in Read(o) \/ Waiting(0, p)
  /\ \A i \in DOMAIN specs : specs[i].end < first
  /\ NodesRead(tokens, Keys, Blocks, nodes, o)
  /\ Complies(tokens, {p \in handled : p > o}, srv, Unsets)

(* In a location, all up to the end of its server but what is in those     *)
(* that follow and what the cursor has not come to.                        *)
LocationRead(o) ==
  LET n == Len(srv["location"]) + 1 IN
  /\ Opens(o) /\ o < serverEnd /\ second = specs[n].end
  /\ \A p \in handled : p <= serverEnd
  /\ \A p \in Words : p <= serverEnd =>
       p \in Read(o) \/ Waiting(n, p) \/ (p >= first /\ InBody(specs[n], p))
  /\ \A i \in DOMAIN specs : specs[i].end <= serverEnd
  /\ NodesRead(tokens, Keys, Blocks, nodes, o)
  /\ Complies(tokens, {p \in handled : p > o}, srv, Defaults)

(* A cursor that has run past the end of a location never comes back: such *)
(* a file is not taken.                                                    *)
ReadInv ==
  /\ handled \subseteq Keys
  /\ ctx = "file" => FileRead
  /\ ctx = "server" => Punctuated(second) /\ \E o \in Blocks : ServerRead(o)
  /\ ctx = "location" =>
       Punctuated(serverEnd) /\ (first > second \/ \E o \in Blocks : LocationRead(o))
  /\ Accepted => handled = Keys /\ NodesRead(tokens, Keys, Blocks, nodes, Len(tokens) + 1)

(* The block that begins at o ends in front of q, and s is what it gave.   *)
Finishes(ts, K, B, ns, o, q, s) ==
  /\ K \subseteq Nat /\ IsFiniteSet(B) /\ B \subseteq Nat /\ K \cap B = {}
  /\ o \in B /\ q \in Nat /\ o < q /\ \A b \in B : o < b => ~(b < q)
  /\ Listed(ns) /\ Begun(B, o) = Len(ns) /\ NodesRead(ts, K, B, ns, o)
  /\ Complies(ts, Between(K, o, q), s, Defaults)

(* A finished block is one more that has what its keys wrote.              *)
LEMMA NodeAppended ==
  ASSUME NEW ts, NEW K, NEW B, NEW ns, NEW o, NEW q, NEW s, NEW t,
         Finishes(ts, K, B, ns, o, q, s), t = Append(ns, s)
  PROVE  NodesRead(ts, K, B, t, q)
<1>0. /\ K \subseteq Nat /\ IsFiniteSet(B) /\ B \subseteq Nat /\ K \cap B = {}
      /\ o \in B /\ q \in Nat /\ o < q /\ \A b \in B : o < b => ~(b < q)
      /\ Listed(ns) /\ Begun(B, o) = Len(ns) /\ NodesRead(ts, K, B, ns, o)
      /\ Complies(ts, Between(K, o, q), s, Defaults)
  BY Zenon DEF Finishes
<1> USE <1>0
<1>1. PICK n : n = Len(ns) OBVIOUS
<1>2. /\ n \in Nat /\ Listed(t) /\ Len(t) = n + 1 /\ t[n + 1] = s
      /\ \A i \in 1 .. n : t[i] = ns[i]
  BY <1>1, Appended DEF Listed
<1>3. DOMAIN t = 1 .. n + 1 /\ DOMAIN ns = 1 .. n BY <1>1, <1>2 DEF Listed
<1>4. (\A p \in K : p \in Nat) /\ (\A b \in B : b \in Nat) /\ o \in Nat OBVIOUS
<1>5. At(B, o) = n + 1 BY <1>1, AtStart DEF Begun
<1>6. ASSUME NEW p \in K, p < o PROVE At(B, p) \in Nat /\ At(B, p) <= n
  BY <1>1, <1>4, <1>6, AtBefore DEF Begun
<1>7. ASSUME NEW p \in K, ~(p < o), p < q PROVE At(B, p) = n + 1 /\ o < p
  <2>1. p # o BY <1>7
  <2>2. o < p BY <1>4, <1>7, <2>1
  <2>3. \A b \in B : o < b => ~(b <= p) BY <1>4, <1>7
  <2>4. p \in Nat /\ o \in Nat /\ o <= p BY <1>4, <2>2
  <2>5. At(B, p) = At(B, o) BY <2>3, <2>4, AtStays
  <2> QED BY <1>5, <2>2, <2>5
<1>8. ASSUME NEW i \in 1 .. n PROVE Complies(ts, {p \in K : At(B, p) = i /\ p < q}, t[i], Defaults)
  <2>1. \A p \in K : (At(B, p) = i /\ p < q) <=> (At(B, p) = i /\ p < o)
    <3>1. ASSUME NEW p \in K, At(B, p) = i, p < q PROVE p < o
      <4>1. At(B, p) # n + 1 BY <1>2, <3>1
      <4> QED BY <1>7, <3>1, <4>1
    <3>2. ASSUME NEW p \in K, p < o PROVE p < q BY <1>4, <3>2
    <3> QED BY <3>1, <3>2
  <2>2. {p \in K : At(B, p) = i /\ p < q} = {p \in K : At(B, p) = i /\ p < o} BY <2>1, Zenon
  <2>3. Complies(ts, {p \in K : At(B, p) = i /\ p < o}, ns[i], Defaults)
    BY <1>3, Zenon DEF NodesRead
  <2>4. t[i] = ns[i] BY <1>2
  <2> QED BY <2>2, <2>3, <2>4, Zenon
<1>9. Complies(ts, {p \in K : At(B, p) = n + 1 /\ p < q}, t[n + 1], Defaults)
  <2>1. \A p \in K : (At(B, p) = n + 1 /\ p < q) <=> (o < p /\ p < q)
    <3>1. ASSUME NEW p \in K, At(B, p) = n + 1, p < q PROVE o < p
      <4>1. ~(p < o)
        <5>1. p < o => At(B, p) \in Nat /\ At(B, p) <= n BY <1>6
        <5> QED BY <1>2, <3>1, <5>1
      <4> QED BY <1>7, <3>1, <4>1
    <3>2. ASSUME NEW p \in K, o < p, p < q PROVE At(B, p) = n + 1
      <4>1. ~(p < o) BY <1>4, <3>2
      <4> QED BY <1>7, <3>2, <4>1
    <3> QED BY <3>1, <3>2
  <2>2. {p \in K : At(B, p) = n + 1 /\ p < q} = {p \in K : o < p /\ p < q} BY <2>1, Zenon
  <2> QED BY <1>2, <2>2, Zenon DEF Between
<1>10. NodesRead(ts, K, B, t, q)
  <2>1. \A i \in 1 .. n + 1 : i \in 1 .. n \/ i = n + 1 BY <1>2
  <2> QED BY <1>3, <1>8, <1>9, <2>1, Zenon DEF NodesRead
<1> QED BY <1>10

(* ... and one more has begun.                                             *)
LEMMA OneMoreBegun ==
  ASSUME NEW ts, NEW K, NEW B, NEW ns, NEW o, NEW q, NEW s, Finishes(ts, K, B, ns, o, q, s)
  PROVE  Begun(B, q) = Len(ns) + 1
<1>1. /\ IsFiniteSet(B) /\ B \subseteq Nat /\ o \in B /\ q \in Nat /\ o < q
      /\ \A b \in B : o < b => ~(b < q)
      /\ Begun(B, o) = Len(ns)
  BY Zenon DEF Finishes
<1>2. At(B, o) = Len(ns) + 1 BY <1>1, AtStart DEF Begun
<1>3. \A b \in B : b \in Nat BY <1>1
<1>4. \A b \in B : b < q <=> b <= o BY <1>1, <1>3
<1>5. {b \in B : b < q} = {b \in B : b <= o} BY <1>4, Zenon
<1> QED BY <1>2, <1>5 DEF At, Begun

(* The words of a file do not change.                                      *)
LEMMA WordsKept ==
  ASSUME UNCHANGED tokens
  PROVE  Keys' = Keys /\ Blocks' = Blocks /\ Words' = Words
BY DEF Keys, Blocks, Words

(* Nothing of a file that is not taken matters.                            *)
LEMMA HaltsReads == ASSUME ReadInv, Halts PROVE ReadInv'
<1>1. handled' \subseteq Keys' BY WordsKept DEF ReadInv, Halts
<1>2. ctx' \in {"rejected", "undefined"} BY DEF Halts
<1> QED BY <1>1, <1>2 DEF ReadInv, Accepted

(* What comes after the parser leaves it as it is.                         *)
LEMMA AcceptedReads ==
  ASSUME ReadInv, Accepted, ctx' \notin {"file", "server", "location"},
         UNCHANGED <<tokens, nodes, handled>>
  PROVE  ReadInv'
<1>1. handled = Keys /\ NodesRead(tokens, Keys, Blocks, nodes, Len(tokens) + 1)
  BY DEF ReadInv
<1>2. handled' = Keys' /\ NodesRead(tokens, Keys, Blocks, nodes, Len(tokens) + 1)'
  BY <1>1, WordsKept
<1> QED BY <1>2 DEF ReadInv

(* Nothing has been read yet.                                              *)
LEMMA ReadInitially == ASSUME Init PROVE ReadInv
<1>1. /\ Tokens /\ first = 1 /\ ctx = "file" /\ nodes = << >> /\ handled = {}
  BY DEF Init, ParseInit, Tokens
<1>2. Blocks \subseteq Nat /\ Keys \subseteq Nat BY <1>1, BlocksFinite
<1>3. \A p \in Blocks \cup Keys : p >= 1
  BY <1>1, TokenTypes DEF Blocks, Keys
<1>4. {b \in Blocks : b < 1} = {}
  <2>1. ASSUME NEW b \in Blocks PROVE ~(b < 1)
    <3>1. b \in Nat /\ b >= 1 BY <1>2, <1>3
    <3> QED BY <3>1
  <2> QED BY <2>1
<1>5. Begun(Blocks, first) = Len(nodes) BY <1>1, <1>4, FS_EmptySet DEF Begun
<1>6. NodesRead(tokens, Keys, Blocks, nodes, first) BY <1>1 DEF NodesRead
<1>7. FileRead BY <1>1, <1>2, <1>3, <1>5, <1>6 DEF FileRead
<1> QED BY <1>1, <1>7 DEF ReadInv, Accepted

-----------------------------------------------------------------------------
(* Reading a file                                                          *)

(* A block ends with punctuation: the first place where as many blocks     *)
(* have ended as started is one where one of the two happens.              *)
LEMMA ClosingPunctuated ==
  ASSUME Tokens, NEW open \in Nat, Type(open) = "BlockStart", Closing(open) # {}
  PROVE  Punctuated(Min(Closing(open))) /\ Min(Closing(open)) >= open
<1> DEFINE S == Closing(open)
<1>1. Len(tokens) \in Nat /\ DOMAIN tokens = 1 .. Len(tokens) BY TokensListed DEF Listed
<1>2. open \in DOMAIN tokens /\ tokens[open].type = "BlockStart" BY TypedToken DEF Type
<1>3. S \in SUBSET Nat /\ S # {} BY <1>1 DEF Closing
<1>4. PICK e : e = Min(S) OBVIOUS
<1>5. e \in S /\ \A q \in S : e <= q
  <2> HIDE DEF S
  <2> QED BY <1>3, <1>4, Least
<1>6. /\ e \in open .. Len(tokens) /\ e \in DOMAIN tokens
      /\ Cardinality({p \in open .. e : tokens[p].type = "BlockStart"})
           = Cardinality({p \in open .. e : tokens[p].type = "BlockEnd"})
  BY <1>1, <1>2, <1>5 DEF Closing
<1>7. ASSUME tokens[e].type \notin DOMAIN Punctuation PROVE FALSE
  <2>1. e # open /\ tokens[e].type # "BlockStart" /\ tokens[e].type # "BlockEnd"
    BY <1>2, <1>7 DEF Punctuation
  <2>2. e - 1 \in open .. Len(tokens) /\ e \in Nat BY <1>1, <1>6, <2>1
  <2>3. \A p : p \in open .. e <=> p \in open .. e - 1 \/ p = e BY <1>6, <2>2
  <2>4. {p \in open .. e : tokens[p].type = "BlockStart"}
          = {p \in open .. e - 1 : tokens[p].type = "BlockStart"}
    BY <2>1, <2>3, Zenon
  <2>5. {p \in open .. e : tokens[p].type = "BlockEnd"}
          = {p \in open .. e - 1 : tokens[p].type = "BlockEnd"}
    BY <2>1, <2>3, Zenon
  <2>6. e - 1 \in S BY <1>6, <2>2, <2>4, <2>5 DEF Closing
  <2>7. e <= e - 1 BY <1>5, <2>6
  <2> QED BY <2>2, <2>7
<1>8. e >= open BY <1>6
<1> QED BY <1>4, <1>6, <1>7, <1>8 DEF Punctuated, Type

(* The end of the file, where all of it has been handled.                  *)
LEMMA AcceptReads ==
  ASSUME ParseInv, ReadInv, ctx = "file", first > Len(tokens), ctx' = "accepted",
         UNCHANGED <<tokens, nodes, handled>>
  PROVE  ReadInv'
<1>1. Len(tokens) \in Nat /\ DOMAIN tokens = 1 .. Len(tokens)
  BY TokensListed DEF ParseInv, Listed
<1>2. first = Len(tokens) + 1 BY <1>1 DEF ParseInv, Cursor
<1>3. FileRead /\ handled \subseteq Keys BY DEF ReadInv
<1>4. Keys \subseteq handled
  <2>1. ASSUME NEW p \in Keys PROVE p \in handled
    <3>1. p \in DOMAIN tokens BY DEF Keys
    <3>2. p < first BY <1>1, <1>2, <3>1
    <3> QED BY <1>3, <3>2 DEF FileRead
  <2> QED BY <2>1
<1>5. NodesRead(tokens, Keys, Blocks, nodes, Len(tokens) + 1) BY <1>2, <1>3 DEF FileRead
<1>6. handled' = Keys' /\ NodesRead(tokens, Keys, Blocks, nodes, Len(tokens) + 1)'
  BY <1>3, <1>4, <1>5, WordsKept
<1> QED BY <1>6 DEF ReadInv

(* The next block: its first word is the one that opens it.                *)
LEMMA EnterReads ==
  ASSUME ParseInv, ReadInv, ctx = "file", Text(first) = "server",
         Type(first + 1) = "BlockStart", Closing(first + 1) # {},
         first' = first + 2, second' = Min(Closing(first + 1)), ctx' = "server",
         srv' = NewServer, specs' = << >>, UNCHANGED <<tokens, nodes, handled>>
  PROVE  ReadInv'
<1>1. Tokens /\ FileRead /\ handled \subseteq Keys BY DEF ParseInv, ReadInv
<1>2. first \in Nat BY <1>1, TokensListed DEF ParseInv, Cursor, Listed
<1>3. first + 1 \in Nat /\ first + 1 \in DOMAIN tokens BY <1>2, TypedToken
<1>4. Punctuated(second')
  <2>1. Punctuated(Min(Closing(first + 1))) BY <1>1, <1>3, ClosingPunctuated
  <2> QED BY <2>1
<1>5. first \in Blocks
  <2>1. first \in DOMAIN tokens /\ tokens[first].text = "server" BY DEF Text
  <2>2. tokens[first].type = "Key"
    <3>1. first = 1 \/ Punctuated(first - 1) BY <1>1 DEF FileRead
    <3> QED BY <1>1, <2>1, <3>1, TokenTypes
  <2> QED BY <2>1, <2>2 DEF Blocks
<1>6. Opens(first) BY <1>1, <1>5 DEF Opens, FileRead
<1>7. Words \subseteq Nat BY <1>1, BlocksFinite DEF Words
<1>8. \A p \in handled : p \in Nat /\ p < first BY <1>1, <1>7 DEF FileRead, Words
<1>9. ASSUME NEW p \in Words, p < first + 2 PROVE p \in Read(first)
  <2>1. p \in Nat BY <1>7
  <2>2. p # first + 1
    <3>1. Type(p) = "Key" BY NoWord
    <3> QED BY <3>1
  <2>3. p < first \/ p = first BY <1>2, <1>9, <2>1, <2>2
  <2>4. p \in Keys \/ p \in Blocks BY DEF Words
  <2>5. CASE p \in Blocks
    <3>1. p <= first BY <1>2, <2>1, <2>3
    <3> QED BY <2>5, <3>1 DEF Read
  <2>6. CASE p \in Keys /\ p < first BY <1>1, <2>6 DEF FileRead, Read
  <2>7. CASE p = first BY <1>2, <1>5, <2>7 DEF Read
  <2> QED BY <2>3, <2>4, <2>5, <2>6, <2>7
<1>10. Complies(tokens, {p \in handled : p > first}, NewServer, Unsets)
  <2>1. \A p \in handled : ~(p > first) BY <1>2, <1>8
  <2>2. {p \in handled : p > first} = {} BY <2>1
  <2> QED BY <2>2, NewComplies
<1>11. NodesRead(tokens, Keys, Blocks, nodes, first) BY <1>1 DEF FileRead
<1>12. PICK o : o = first OBVIOUS
<1>13. Keys' = Keys /\ Blocks' = Blocks /\ Words' = Words BY WordsKept
<1>14. ServerRead(o)'
  <2>1. Opens(o)' BY <1>6, <1>12, <1>13 DEF Opens
  <2>2. o < first' /\ \A p \in handled' : p < first' BY <1>2, <1>8, <1>12
  <2>3. \A p \in Words' : p < first' => p \in Read(o)' BY <1>9, <1>12, <1>13 DEF Read
  <2>4. \A i \in DOMAIN specs' : specs'[i].end < first' OBVIOUS
  <2>5. NodesRead(tokens, Keys, Blocks, nodes, o)' BY <1>11, <1>12, <1>13
  <2>6. Complies(tokens, {p \in handled : p > o}, srv, Unsets)' BY <1>10, <1>12
  <2> QED BY <2>1, <2>2, <2>3, <2>4, <2>5, <2>6 DEF ServerRead
<1>15. Punctuated(second)' BY <1>4 DEF Punctuated, Type
<1>16. handled' \subseteq Keys' BY <1>1, <1>13
<1> QED BY <1>5, <1>12, <1>13, <1>14, <1>15, <1>16 DEF ReadInv, Accepted

(* Between the blocks.                                                     *)
LEMMA ParseNodesReads == ASSUME ParseInv, ReadInv, parseNodes PROVE ReadInv'
<1>1. /\ ctx = "file"
      /\ \/ Halts
         \/ first > Len(tokens) /\ ctx' = "accepted" /\ UNCHANGED <<tokens, nodes, handled>>
         \/ /\ Text(first) = "server" /\ Type(first + 1) = "BlockStart"
            /\ Closing(first + 1) # {}
            /\ first' = first + 2 /\ second' = Min(Closing(first + 1)) /\ ctx' = "server"
            /\ srv' = NewServer /\ specs' = << >> /\ UNCHANGED <<tokens, nodes, handled>>
  BY DEF parseNodes, Reject, Ends, Halts
<1> QED BY <1>1, HaltsReads, AcceptReads, EnterReads

(* A directive of a server: its key is handled, no other is passed.        *)
LEMMA ServerRunsReads == ASSUME ParseInv, ReadInv, ServerRuns PROVE ReadInv'
<1>1. ctx = "server" /\ Wrote(tokens, first, srv, srv') /\ UNCHANGED specs BY DEF ServerRuns
<1>2. PICK last \in Nat : last >= first /\ Runs(last) BY DEF ServerRuns
<1>3. PICK o \in Blocks : ServerRead(o) BY <1>1 DEF ReadInv
<1>4. Tokens /\ first \in Nat BY TokensListed DEF ParseInv, Cursor, Listed
<1>5. /\ Type(first) = "Key" /\ Text(first) # "server"
      /\ first' = last + 2 /\ handled' = handled \cup {first}
      /\ UNCHANGED <<tokens, second, ctx, serverEnd, nodes>>
  BY <1>2 DEF Runs
<1>6. first \in DOMAIN tokens /\ first \in Keys
  <2>1. first \in DOMAIN tokens BY <1>5, TypedToken
  <2> QED BY <1>5, <2>1 DEF Keys, Type, Text
<1>7. Keys' = Keys /\ Blocks' = Blocks /\ Words' = Words BY <1>5, WordsKept
<1>8. Words \subseteq Nat /\ o \in Nat BY <1>4, BlocksFinite DEF Words
<1>9. /\ Opens(o) /\ o < first
      /\ \A p \in handled : p < first
      /\ \A p \in Words : p < first => p \in Read(o) \/ Waiting(0, p)
      /\ \A i \in DOMAIN specs : specs[i].end < first
      /\ NodesRead(tokens, Keys, Blocks, nodes, o)
      /\ Complies(tokens, {p \in handled : p > o}, srv, Unsets)
  BY <1>3 DEF ServerRead
<1>10. \A p \in handled : p \in Nat BY <1>8 DEF ReadInv, Words
<1>11. ASSUME NEW p \in Words, p < last + 2 PROVE p \in Read(o)' \/ Waiting(0, p)'
  <2>1. p \in Nat /\ Type(p) = "Key" BY <1>8, NoWord
  <2>2. ~(p \in first + 1 .. last) /\ p # last + 1 BY <1>2, <2>1 DEF Runs
  <2>3. p < first \/ p = first BY <1>2, <1>4, <1>11, <2>1, <2>2
  <2>4. CASE p = first BY <1>5, <2>4 DEF Read
  <2>5. CASE p < first
    <3>1. p \in Read(o) \/ Waiting(0, p) BY <1>9, <2>5
    <3> QED BY <1>1, <1>5, <1>7, <3>1 DEF Read, Waiting
  <2> QED BY <2>3, <2>4, <2>5
<1>12. {p \in handled' : p > o} = {p \in handled : p > o} \cup {first} BY <1>4, <1>5, <1>8, <1>9
<1>13. Complies(tokens, {p \in handled : p > o} \cup {first}, srv', Unsets)
  BY <1>1, <1>9, WroteComplies
<1>14. ServerRead(o)'
  <2>1. Opens(o)' BY <1>5, <1>7, <1>9 DEF Opens
  <2>2. o < first' /\ \A p \in handled' : p < first'
    <3>1. first < last + 2 BY <1>2, <1>4
    <3>2. \A p \in handled : p < last + 2 BY <1>4, <1>9, <1>10, <3>1
    <3>3. o < last + 2 BY <1>4, <1>8, <1>9, <3>1
    <3> QED BY <1>5, <3>1, <3>2, <3>3
  <2>3. \A p \in Words' : p < first' => p \in Read(o)' \/ Waiting(0, p)' BY <1>5, <1>7, <1>11
  <2>4. \A i \in DOMAIN specs' : specs'[i].end < first'
    <3>1. ASSUME NEW i \in DOMAIN specs PROVE specs[i].end < last + 2
      <4>1. specs[i].end \in Nat
        <5>1. specs[i].end \in DOMAIN tokens BY DEF ParseInv, Specs, Spanned
        <5> QED BY <1>4, <5>1, TokenTypes
      <4> QED BY <1>2, <1>4, <1>9, <4>1
    <3> QED BY <1>1, <1>5, <3>1
  <2>5. NodesRead(tokens, Keys, Blocks, nodes, o)' BY <1>5, <1>7, <1>9
  <2>6. Complies(tokens, {p \in handled : p > o}, srv, Unsets)' BY <1>5, <1>12, <1>13
  <2> QED BY <2>1, <2>2, <2>3, <2>4, <2>5, <2>6 DEF ServerRead
<1>15. Punctuated(second)' BY <1>1, <1>5 DEF ReadInv, Punctuated, Type
<1>16. handled' \subseteq Keys' BY <1>5, <1>6, <1>7 DEF ReadInv
<1> QED BY <1>1, <1>5, <1>7, <1>14, <1>15, <1>16 DEF ReadInv, Accepted

(* A location: what its block holds waits until it is entered.             *)
LEMMA SpanRunsReads ==
  ASSUME ParseInv, ReadInv, NEW spec, SpanRuns(spec) PROVE ReadInv'
<1>1. /\ ctx = "server" /\ Type(first) = "Key" /\ Text(first) = "location" /\ UNCHANGED srv
      /\ Type(first + 1) # "Key" /\ Type(first + 2) # "Key" /\ Type(spec.end) # "Key"
      /\ spec.start = first + 3 /\ spec.end \in Nat /\ spec.start <= spec.end
      /\ first' = spec.end + 1 /\ handled' = handled \cup {first}
      /\ specs' = Inserted(spec)
      /\ UNCHANGED <<tokens, second, ctx, serverEnd, nodes>>
  BY DEF SpanRuns
<1>2. PICK e : e = spec.end OBVIOUS
<1>3. PICK o \in Blocks : ServerRead(o) BY <1>1 DEF ReadInv
<1>4. Tokens /\ first \in Nat BY TokensListed DEF ParseInv, Cursor, Listed
<1>5. e \in Nat /\ first + 3 <= e /\ first' = e + 1 BY <1>1, <1>2
<1>6. first \in DOMAIN tokens /\ tokens[first].text = "location" /\ first \in Keys
  <2>1. first \in DOMAIN tokens BY <1>1, TypedToken
  <2> QED BY <1>1, <2>1 DEF Keys, Type, Text
<1>7. Keys' = Keys /\ Blocks' = Blocks /\ Words' = Words BY <1>1, WordsKept
<1>8. Words \subseteq Nat /\ o \in Nat BY <1>4, BlocksFinite DEF Words
<1>9. /\ Opens(o) /\ o < first
      /\ \A p \in handled : p < first
      /\ \A p \in Words : p < first => p \in Read(o) \/ Waiting(0, p)
      /\ \A i \in DOMAIN specs : specs[i].end < first
      /\ NodesRead(tokens, Keys, Blocks, nodes, o)
      /\ Complies(tokens, {p \in handled : p > o}, srv, Unsets)
  BY <1>3 DEF ServerRead
<1>10. \A p \in handled : p \in Nat BY <1>8 DEF ReadInv, Words
<1>11. PICK t : t = Inserted(spec) OBVIOUS
<1>12. /\ specs' = t /\ Listed(t)
       /\ \A i \in DOMAIN specs : \E j \in DOMAIN t : t[j] = specs[i]
       /\ \E j \in DOMAIN t : t[j] = spec
       /\ \A j \in DOMAIN t : t[j] = spec \/ \E i \in DOMAIN specs : t[j] = specs[i]
  BY <1>1, <1>11, InsertedHolds DEF ParseInv
<1>13. \A j \in DOMAIN t : j > 0 BY <1>12 DEF Listed
<1>14. ASSUME NEW p \in Words, p < e + 1 PROVE p \in Read(o)' \/ Waiting(0, p)'
  <2>1. p \in Nat /\ Type(p) = "Key" BY <1>8, NoWord
  <2>2. p # first + 1 /\ p # first + 2 /\ p # e BY <1>1, <1>2, <2>1
  <2>3. p < first \/ p = first \/ (first + 3 <= p /\ p < e)
    BY <1>4, <1>5, <1>14, <2>1, <2>2
  <2>4. CASE p = first BY <1>1, <2>4 DEF Read
  <2>5. CASE p < first
    <3>1. p \in Read(o) \/ Waiting(0, p) BY <1>9, <2>5
    <3>2. p \in Read(o) => p \in Read(o)' BY <1>1, <1>7 DEF Read
    <3>3. ASSUME Waiting(0, p) PROVE Waiting(0, p)'
      <4>1. PICK i \in DOMAIN specs : InBody(specs[i], p) BY <3>3 DEF Waiting
      <4>2. PICK j \in DOMAIN t : t[j] = specs[i] BY <1>12
      <4>3. j > 0 /\ InBody(t[j], p) BY <1>13, <4>1, <4>2
      <4> QED BY <1>12, <4>3 DEF Waiting
    <3> QED BY <3>1, <3>2, <3>3
  <2>6. CASE first + 3 <= p /\ p < e
    <3>1. PICK j \in DOMAIN t : t[j] = spec BY <1>12
    <3>2. j > 0 /\ InBody(t[j], p) BY <1>1, <1>2, <1>13, <2>6, <3>1 DEF InBody
    <3> QED BY <1>12, <3>2 DEF Waiting
  <2> QED BY <2>3, <2>4, <2>5, <2>6
<1>15. {p \in handled' : p > o} = {p \in handled : p > o} \cup {first} BY <1>1, <1>4, <1>8, <1>9
<1>16. Complies(tokens, {p \in handled : p > o} \cup {first}, srv, Unsets)
  <2>1. \A f \in Watched : tokens[first].text # KeyOf[f] BY <1>6, WatchedKeys
  <2> QED BY <1>9, <2>1, OtherComplies
<1>17. ServerRead(o)'
  <2>1. Opens(o)' BY <1>1, <1>7, <1>9 DEF Opens
  <2>2. o < first' /\ \A p \in handled' : p < first'
    <3>1. first < e + 1 BY <1>4, <1>5
    <3>2. \A p \in handled : p < e + 1 BY <1>4, <1>5, <1>9, <1>10, <3>1
    <3>3. o < e + 1 BY <1>4, <1>5, <1>8, <1>9, <3>1
    <3> QED BY <1>1, <1>5, <3>1, <3>2, <3>3
  <2>3. \A p \in Words' : p < first' => p \in Read(o)' \/ Waiting(0, p)' BY <1>5, <1>7, <1>14
  <2>4. \A i \in DOMAIN specs' : specs'[i].end < first'
    <3>1. ASSUME NEW i \in DOMAIN specs PROVE specs[i].end < e + 1
      <4>1. specs[i].end \in Nat
        <5>1. specs[i].end \in DOMAIN tokens BY DEF ParseInv, Specs, Spanned
        <5> QED BY <1>4, <5>1, TokenTypes
      <4> QED BY <1>4, <1>5, <1>9, <4>1
    <3>2. spec.end < e + 1 BY <1>2, <1>5
    <3>3. \A j \in DOMAIN t : t[j].end < e + 1 BY <1>12, <3>1, <3>2
    <3> QED BY <1>5, <1>12, <3>3
  <2>5. NodesRead(tokens, Keys, Blocks, nodes, o)' BY <1>1, <1>7, <1>9
  <2>6. Complies(tokens, {p \in handled : p > o}, srv, Unsets)' BY <1>1, <1>15, <1>16
  <2> QED BY <2>1, <2>2, <2>3, <2>4, <2>5, <2>6 DEF ServerRead
<1>18. Punctuated(second)' BY <1>1 DEF ReadInv, Punctuated, Type
<1>19. handled' \subseteq Keys' BY <1>1, <1>6, <1>7 DEF ReadInv
<1> QED BY <1>1, <1>7, <1>17, <1>18, <1>19 DEF ReadInv, Accepted

(* The end of a server's directives: its locations are what waits.         *)
LEMMA CheckServerReads == ASSUME ParseInv, ReadInv, checkServer PROVE ReadInv'
<1>1. PICK s : s = WithDefaults(srv) OBVIOUS
<1>2. /\ ctx = "server" /\ first = second
      /\ IF Incomplete(s) THEN Reject
         ELSE /\ srv' = s /\ ctx' = "location" /\ serverEnd' = second
              /\ EnterLocation(1) /\ UNCHANGED <<tokens, specs, nodes, handled>>
  BY <1>1 DEF checkServer
<1>3. CASE Incomplete(s)
  <2>1. Halts BY <1>2, <1>3 DEF Reject, Ends, Halts
  <2> QED BY <2>1, HaltsReads
<1>4. CASE ~Incomplete(s)
  <2>1. /\ srv' = s /\ ctx' = "location" /\ serverEnd' = first
        /\ first' = specs[1].start /\ second' = specs[1].end
        /\ UNCHANGED <<tokens, specs, nodes, handled>>
    BY <1>2, <1>4 DEF EnterLocation
  <2>2. Limited(srv) /\ srv["location"] = << >> BY <1>2 DEF ParseInv, Current
  <2>3. s["location"] = << >> BY <1>1, <1>4, <2>2, DefaultsComplete
  <2>4. Len(srv'["location"]) + 1 = 1 BY <2>1, <2>3
  <2>5. PICK o \in Blocks : ServerRead(o) BY <1>2 DEF ReadInv
  <2>6. Tokens /\ first \in Nat BY TokensListed DEF ParseInv, Cursor, Listed
  <2>7. Keys' = Keys /\ Blocks' = Blocks /\ Words' = Words BY <2>1, WordsKept
  <2>8. Words \subseteq Nat BY <2>6, BlocksFinite DEF Words
  <2>9. /\ Opens(o) /\ o < first
        /\ \A p \in handled : p < first
        /\ \A p \in Words : p < first => p \in Read(o) \/ Waiting(0, p)
        /\ \A i \in DOMAIN specs : specs[i].end < first
        /\ NodesRead(tokens, Keys, Blocks, nodes, o)
        /\ Complies(tokens, {p \in handled : p > o}, srv, Unsets)
    BY <2>5 DEF ServerRead
  <2>10. Punctuated(first) BY <1>2 DEF ReadInv
  <2>11. \A i \in DOMAIN specs : i \in Nat /\ i > 0 /\ specs[i].end \in Nat
    <3>1. \A i \in DOMAIN specs : specs[i].end \in DOMAIN tokens BY DEF ParseInv, Specs, Spanned
    <3>2. \A i \in DOMAIN specs : specs[i].end \in Nat BY <2>6, <3>1, TokenTypes
    <3> QED BY <3>2 DEF ParseInv, Specs, Listed
  <2>12. ASSUME NEW p \in Words, p <= first
         PROVE  p \in Read(o) \/ Waiting(1, p) \/ (p >= specs[1].start /\ InBody(specs[1], p))
    <3>1. p \in Nat /\ Type(p) = "Key" BY <2>8, NoWord
    <3>2. p # first BY <2>10, <3>1 DEF Punctuated, Punctuation
    <3>3. p < first BY <2>6, <2>12, <3>1, <3>2
    <3>4. SUFFICES ASSUME Waiting(0, p)
                   PROVE  Waiting(1, p) \/ (p >= specs[1].start /\ InBody(specs[1], p))
      BY <2>9, <3>3
    <3>5. PICK i \in DOMAIN specs : InBody(specs[i], p) BY <3>4 DEF Waiting
    <3>6. CASE i = 1
      <4>1. specs[1].start \in Nat BY <3>5, <3>6 DEF ParseInv, Specs, Spanned
      <4> QED BY <3>1, <3>5, <3>6, <4>1 DEF InBody
    <3>7. CASE i # 1
      <4>1. i > 1 BY <2>11, <3>7
      <4> QED BY <3>5, <4>1 DEF Waiting
    <3> QED BY <3>6, <3>7
  <2>13. Complies(tokens, {p \in handled : p > o}, s, Defaults)
    BY <1>1, <2>2, <2>9, DefaultsComply
  <2>14. handled \subseteq Nat BY <2>8 DEF ReadInv, Words
  <2>15. LocationRead(o)'
    <3>1. Opens(o)' BY <2>1, <2>7, <2>9 DEF Opens
    <3>2. o < serverEnd' /\ second' = specs'[1].end BY <2>1, <2>9
    <3>3. \A p \in handled' : p <= serverEnd'
      <4>1. \A p \in handled : p <= first BY <2>6, <2>9, <2>14
      <4> QED BY <2>1, <4>1
    <3>4. \A p \in Words' : p <= serverEnd' =>
            p \in Read(o)' \/ Waiting(1, p)' \/ (p >= first' /\ InBody(specs'[1], p))
      BY <2>1, <2>7, <2>12 DEF Read, Waiting
    <3>5. \A i \in DOMAIN specs' : specs'[i].end <= serverEnd'
      <4>1. \A i \in DOMAIN specs : specs[i].end <= first BY <2>6, <2>9, <2>11
      <4> QED BY <2>1, <4>1
    <3>6. NodesRead(tokens, Keys, Blocks, nodes, o)' BY <2>1, <2>7, <2>9
    <3>7. Complies(tokens, {p \in handled : p > o}, srv, Defaults)' BY <2>1, <2>13
    <3> QED BY <2>4, <3>1, <3>2, <3>3, <3>4, <3>5, <3>6, <3>7 DEF LocationRead, Waiting, InBody
  <2>16. Punctuated(serverEnd)' BY <2>1, <2>10 DEF Punctuated, Type
  <2>17. handled' \subseteq Keys' BY <2>1, <2>7 DEF ReadInv
  <2> QED BY <2>1, <2>7, <2>15, <2>16, <2>17 DEF ReadInv, Accepted
<1> QED BY <1>3, <1>4

(* A directive of a location, inside its block or, where a ';' is missing, *)
(* beyond.                                                                 *)
LEMMA LocationRunsReads == ASSUME ParseInv, ReadInv, first # second, LocationRuns PROVE ReadInv'
<1>1. ctx = "location" /\ (\A f \in Watched : Text(first) # KeyOf[f]) /\ UNCHANGED <<srv, specs>>
  BY DEF LocationRuns
<1>2. PICK last \in Nat : last >= first /\ Runs(last) BY DEF LocationRuns
<1>3. /\ Type(first) = "Key" /\ Text(first) # "server"
      /\ first' = last + 2 /\ handled' = handled \cup {first}
      /\ UNCHANGED <<tokens, second, ctx, serverEnd, nodes>>
  BY <1>2 DEF Runs
<1>4. Tokens /\ first \in Nat BY TokensListed DEF ParseInv, Cursor, Listed
<1>5. second \in Nat /\ serverEnd \in Nat
  <2>1. second \in DOMAIN tokens /\ serverEnd \in DOMAIN tokens
    BY <1>1 DEF ParseInv, Cursor
  <2> QED BY <1>4, <2>1, TokenTypes
<1>6. first \in DOMAIN tokens /\ first \in Keys /\ \A f \in Watched : tokens[first].text # KeyOf[f]
  <2>1. first \in DOMAIN tokens BY <1>3, TypedToken
  <2> QED BY <1>1, <1>3, <2>1 DEF Keys, Type, Text
<1>7. Keys' = Keys /\ Blocks' = Blocks /\ Words' = Words BY <1>3, WordsKept
<1>8. handled' \subseteq Keys' BY <1>3, <1>6, <1>7 DEF ReadInv
<1>9. Punctuated(serverEnd)' BY <1>1, <1>3 DEF ReadInv, Punctuated, Type
<1>10. ctx' = "location" BY <1>1, <1>3
<1>11. CASE first > second
  <2>1. last + 2 > second BY <1>2, <1>4, <1>5, <1>11
  <2>2. first' > second' BY <1>3, <2>1
  <2> QED BY <1>8, <1>9, <1>10, <2>2 DEF ReadInv, Accepted
<1>12. CASE ~(first > second)
  <2>1. PICK o \in Blocks : LocationRead(o) BY <1>1, <1>12 DEF ReadInv
  <2>2. PICK n : n = Len(srv["location"]) + 1 OBVIOUS
  <2>3. /\ Opens(o) /\ o < serverEnd /\ second = specs[n].end
        /\ \A p \in handled : p <= serverEnd
        /\ \A p \in Words : p <= serverEnd =>
             p \in Read(o) \/ Waiting(n, p) \/ (p >= first /\ InBody(specs[n], p))
        /\ \A i \in DOMAIN specs : specs[i].end <= serverEnd
        /\ NodesRead(tokens, Keys, Blocks, nodes, o)
        /\ Complies(tokens, {p \in handled : p > o}, srv, Defaults)
    BY <2>1, <2>2 DEF LocationRead
  <2>4. n \in DOMAIN specs
    <3>1. /\ Listed(srv["location"]) /\ Len(srv["location"]) < Len(specs)
          /\ Listed(specs)
      BY <1>1 DEF ParseInv, Current, InLocation, Located, Specs
    <3> QED BY <2>2, <3>1 DEF Listed
  <2>5. first <= serverEnd
    <3>1. first < second BY <1>4, <1>5, <1>12
    <3>2. second <= serverEnd BY <2>3, <2>4
    <3> QED BY <1>4, <1>5, <3>1, <3>2
  <2>6. Words \subseteq Nat /\ o \in Nat BY <1>4, BlocksFinite DEF Words
  <2>7. ASSUME NEW p \in Words, p <= serverEnd
        PROVE  p \in Read(o)' \/ Waiting(n, p)' \/ (p >= last + 2 /\ InBody(specs[n], p))
    <3>1. p \in Nat /\ Type(p) = "Key" BY <2>6, NoWord
    <3>2. p \in Read(o) \/ Waiting(n, p) \/ (p >= first /\ InBody(specs[n], p)) BY <2>3, <2>7
    <3>3. p \in Read(o) => p \in Read(o)' BY <1>3, <1>7 DEF Read
    <3>4. Waiting(n, p) => Waiting(n, p)' BY <1>1 DEF Waiting
    <3>5. ASSUME p >= first PROVE p \in Read(o)' \/ p >= last + 2
      <4>1. ~(p \in first + 1 .. last) /\ p # last + 1 BY <1>2, <3>1 DEF Runs
      <4>2. p = first \/ p >= last + 2 BY <1>2, <1>4, <3>1, <3>5, <4>1
      <4> QED BY <1>3, <4>2 DEF Read
    <3> QED BY <3>2, <3>3, <3>4, <3>5
  <2>8. Complies(tokens, {p \in handled \cup {first} : p > o}, srv, Defaults)
    <3>1. CASE first > o
      <4>1. {p \in handled \cup {first} : p > o} = {p \in handled : p > o} \cup {first} BY <3>1
      <4>2. Complies(tokens, {p \in handled : p > o} \cup {first}, srv, Defaults)
        BY <1>6, <2>3, OtherComplies
      <4> QED BY <4>1, <4>2, Zenon
    <3>2. CASE ~(first > o)
      <4>1. {p \in handled \cup {first} : p > o} = {p \in handled : p > o} BY <3>2
      <4> QED BY <2>3, <4>1, Zenon
    <3> QED BY <3>1, <3>2
  <2>9. LocationRead(o)'
    <3>1. Opens(o)' BY <1>3, <1>7, <2>3 DEF Opens
    <3>2. o < serverEnd' /\ second' = specs'[n].end /\ n = Len(srv'["location"]) + 1
      BY <1>1, <1>3, <2>2, <2>3
    <3>3. \A p \in handled' : p <= serverEnd' BY <1>3, <2>3, <2>5
    <3>4. \A p \in Words' : p <= serverEnd' =>
            p \in Read(o)' \/ Waiting(n, p)' \/ (p >= first' /\ InBody(specs'[n], p))
      BY <1>1, <1>3, <1>7, <2>7
    <3>5. \A i \in DOMAIN specs' : specs'[i].end <= serverEnd' BY <1>1, <1>3, <2>3
    <3>6. NodesRead(tokens, Keys, Blocks, nodes, o)' BY <1>3, <1>7, <2>3
    <3>7. Complies(tokens, {p \in handled : p > o}, srv, Defaults)' BY <1>1, <1>3, <2>8
    <3> QED BY <3>1, <3>2, <3>3, <3>4, <3>5, <3>6, <3>7 DEF LocationRead, Waiting, InBody
  <2> QED BY <1>7, <1>8, <1>9, <1>10, <2>9 DEF ReadInv, Accepted
<1> QED BY <1>11, <1>12

(* The end of a location: the next is entered, or the block is finished    *)
(* and nothing in it waits any more.                                       *)
LEMMA CheckLocationReads == ASSUME ParseInv, ReadInv, checkLocation PROVE ReadInv'
<1> DEFINE done == srv["location"]
<1>1. PICK l : l = LocationDefaults(loc) OBVIOUS
<1>2. PICK v : v = Append(done, l) OBVIOUS
<1>3. PICK s : s = [srv EXCEPT !["location"] = v] OBVIOUS
<1>4. /\ ctx = "location" /\ first = second /\ srv' = s
      /\ IF Len(s["location"]) < Len(specs)
         THEN EnterLocation(Len(s["location"]) + 1) /\ UNCHANGED <<ctx, nodes>>
         ELSE /\ nodes' = Append(nodes, s) /\ ctx' = "file"
              /\ first' = serverEnd + 1
      /\ UNCHANGED <<tokens, specs, serverEnd, handled>>
  BY <1>1, <1>2, <1>3 DEF checkLocation
<1>5. Limited(srv) /\ Listed(done) /\ Len(done) < Len(specs)
  BY <1>4 DEF ParseInv, Current, InLocation, Located
<1> HIDE DEF done
<1>6. s["location"] = v /\ \A f \in Watched : s[f] = srv[f]
  <2>1. DOMAIN srv = ServerFields BY <1>5 DEF Limited
  <2>2. "location" \in DOMAIN srv /\ \A f \in Watched : f \in DOMAIN srv /\ f # "location"
    BY <2>1 DEF ServerFields, Watched
  <2>3. s["location"] = v BY <1>3, <2>2
  <2>4. ASSUME NEW f \in Watched PROVE s[f] = srv[f]
    <3>1. f \in DOMAIN srv /\ f # "location" BY <2>2
    <3> QED BY <1>3, <3>1
  <2> QED BY <2>3, <2>4
<1>7. PICK n : n = Len(done) + 1 OBVIOUS
<1>8. n \in Nat /\ n > 0 /\ Len(v) = n BY <1>2, <1>5, <1>7, Appended DEF Listed
<1>9. Len(specs) \in Nat /\ DOMAIN specs = 1 .. Len(specs) BY DEF ParseInv, Specs, Listed
<1>10. n \in DOMAIN specs BY <1>5, <1>7, <1>8, <1>9
<1>11. Tokens /\ first \in Nat /\ second \in Nat /\ serverEnd \in Nat
  <2>1. Tokens /\ first \in Nat BY TokensListed DEF ParseInv, Cursor, Listed
  <2>2. second \in DOMAIN tokens /\ serverEnd \in DOMAIN tokens
    BY <1>4 DEF ParseInv, Cursor
  <2> QED BY <2>1, <2>2, TokenTypes
<1>12. ~(first > second) BY <1>4, <1>11
<1>13. PICK o \in Blocks : LocationRead(o) BY <1>4, <1>12 DEF ReadInv
<1>14. /\ Opens(o) /\ o < serverEnd /\ second = specs[n].end
       /\ \A p \in handled : p <= serverEnd
       /\ \A p \in Words : p <= serverEnd =>
            p \in Read(o) \/ Waiting(n, p) \/ (p >= first /\ InBody(specs[n], p))
       /\ \A i \in DOMAIN specs : specs[i].end <= serverEnd
       /\ NodesRead(tokens, Keys, Blocks, nodes, o)
       /\ Complies(tokens, {p \in handled : p > o}, srv, Defaults)
  BY <1>7, <1>13 DEF LocationRead, done
<1>15. Keys' = Keys /\ Blocks' = Blocks /\ Words' = Words BY <1>4, WordsKept
<1>16. Words \subseteq Nat /\ o \in Nat BY <1>11, BlocksFinite DEF Words
<1>17. ASSUME NEW p \in Words, p <= serverEnd PROVE p \in Read(o) \/ Waiting(n, p)
  <2>1. p \in Nat BY <1>16
  <2>2. ~(p >= first /\ InBody(specs[n], p)) BY <1>4, <1>11, <1>14, <2>1 DEF InBody
  <2> QED BY <1>14, <1>17, <2>2
<1>18. handled' \subseteq Keys' BY <1>4, <1>15 DEF ReadInv
<1>19. Punctuated(serverEnd) BY <1>4 DEF ReadInv
<1>20. Complies(tokens, {p \in handled : p > o}, s, Defaults) BY <1>6, <1>14, SameComplies
<1>21. CASE n < Len(specs)
  <2>1. /\ first' = specs[n + 1].start /\ second' = specs[n + 1].end
        /\ ctx' = "location" /\ nodes' = nodes
    BY <1>4, <1>6, <1>8, <1>21 DEF EnterLocation
  <2>2. Len(srv'["location"]) + 1 = n + 1 BY <1>4, <1>6, <1>8
  <2>3. n + 1 \in DOMAIN specs BY <1>8, <1>9, <1>21
  <2>4. ASSUME NEW p \in Words, p <= serverEnd
        PROVE  \/ p \in Read(o) \/ Waiting(n + 1, p)
               \/ p >= specs[n + 1].start /\ InBody(specs[n + 1], p)
    <3>1. p \in Nat BY <1>16
    <3>2. SUFFICES ASSUME Waiting(n, p)
                   PROVE  \/ Waiting(n + 1, p)
                          \/ p >= specs[n + 1].start /\ InBody(specs[n + 1], p)
      BY <1>17, <2>4
    <3>3. PICK i \in DOMAIN specs : i > n /\ InBody(specs[i], p) BY <3>2 DEF Waiting
    <3>4. CASE i = n + 1
      <4>1. specs[n + 1].start \in Nat BY <2>3 DEF ParseInv, Specs, Spanned
      <4> QED BY <3>1, <3>3, <3>4, <4>1 DEF InBody
    <3>5. CASE i # n + 1
      <4>1. i > n + 1 BY <1>8, <1>9, <3>3, <3>5
      <4> QED BY <3>3, <4>1 DEF Waiting
    <3> QED BY <3>4, <3>5
  <2>5. LocationRead(o)'
    <3>1. Opens(o)' BY <1>14, <1>15, <2>1 DEF Opens
    <3>2. o < serverEnd' /\ second' = specs'[n + 1].end BY <1>4, <1>14, <2>1
    <3>3. \A p \in handled' : p <= serverEnd' BY <1>4, <1>14
    <3>4. \A p \in Words' : p <= serverEnd' =>
            p \in Read(o)' \/ Waiting(n + 1, p)' \/ (p >= first' /\ InBody(specs'[n + 1], p))
      BY <1>4, <1>15, <2>1, <2>4 DEF Read, Waiting
    <3>5. \A i \in DOMAIN specs' : specs'[i].end <= serverEnd' BY <1>4, <1>14
    <3>6. NodesRead(tokens, Keys, Blocks, nodes, o)' BY <1>4, <1>14, <1>15, <2>1
    <3>7. Complies(tokens, {p \in handled : p > o}, srv, Defaults)' BY <1>4, <1>20
    <3> QED BY <2>2, <3>1, <3>2, <3>3, <3>4, <3>5, <3>6, <3>7 DEF LocationRead, Waiting, InBody
  <2>6. Punctuated(serverEnd)' BY <1>4, <1>19 DEF Punctuated, Type
  <2> QED BY <1>15, <1>18, <2>1, <2>5, <2>6 DEF ReadInv, Accepted
<1>22. CASE ~(n < Len(specs))
  <2>1. nodes' = Append(nodes, s) /\ ctx' = "file" /\ first' = serverEnd + 1
    BY <1>4, <1>6, <1>8, <1>22
  <2>2. PICK q : q = serverEnd + 1 OBVIOUS
  <2>3. q \in Nat /\ o < q /\ q - 1 = serverEnd BY <1>11, <1>14, <1>16, <2>2
  <2>4. ASSUME NEW p \in Words, p < q PROVE p \in Read(o)
    <3>1. p \in Nat BY <1>16
    <3>2. p <= serverEnd BY <1>11, <2>2, <2>4, <3>1
    <3>3. ~Waiting(n, p)
      <4>1. \A i \in DOMAIN specs : ~(i > n) BY <1>8, <1>9, <1>22
      <4> QED BY <4>1 DEF Waiting
    <3> QED BY <1>17, <3>2, <3>3
  <2>5. Keys \cap Blocks = {} BY DEF Keys, Blocks
  <2>6. handled \subseteq Keys BY DEF ReadInv
  <2>7. \A b \in Blocks : o < b => ~(b < q)
    <3>1. ASSUME NEW b \in Blocks, o < b, b < q PROVE FALSE
      <4>1. b \in Read(o) BY <2>4, <3>1 DEF Words
      <4>2. b \notin handled BY <2>5, <2>6
      <4>3. b <= o /\ b \in Nat BY <1>16, <4>1, <4>2 DEF Read, Words
      <4> QED BY <1>16, <3>1, <4>3
    <3> QED BY <3>1
  <2>8. ASSUME NEW p \in Keys, p < q PROVE p \in handled
    <3>1. p \in Read(o) BY <2>4, <2>8 DEF Words
    <3>2. p \notin Blocks BY <2>5
    <3> QED BY <3>1, <3>2 DEF Read
  <2>9. \A p \in handled : p \in Nat /\ p < q
    <3>1. ASSUME NEW p \in handled PROVE p \in Nat /\ p < q
      <4>1. p \in Nat /\ p <= serverEnd BY <1>14, <1>16, <2>6 DEF Words
      <4> QED BY <1>11, <2>2, <4>1
    <3> QED BY <3>1
  <2>10. {p \in handled : p > o} = Between(Keys, o, q)
    <3>1. \A p : (p \in handled /\ p > o) <=> (p \in Keys /\ o < p /\ p < q)
      BY <2>6, <2>8, <2>9
    <3> QED BY <3>1 DEF Between
  <2>11. PICK t : t = Append(nodes, s) OBVIOUS
  <2>12. NodesRead(tokens, Keys, Blocks, t, q) /\ Begun(Blocks, q) = Len(t)
    <3>1. Keys \subseteq Nat /\ IsFiniteSet(Blocks) /\ Blocks \subseteq Nat
      BY <1>11, BlocksFinite
    <3>2. Listed(nodes) BY DEF ParseInv, Nodes
    <3>3. Begun(Blocks, o) = Len(nodes) BY <1>14 DEF Opens
    <3>4. Complies(tokens, Between(Keys, o, q), s, Defaults)
      BY <1>20, <2>10, Zenon
    <3>5. NodesRead(tokens, Keys, Blocks, nodes, o) BY <1>14
    <3>6. Finishes(tokens, Keys, Blocks, nodes, o, q, s)
      BY <2>3, <2>5, <2>7, <3>1, <3>2, <3>3, <3>4, <3>5 DEF Finishes
    <3>7. NodesRead(tokens, Keys, Blocks, t, q) BY <2>11, <3>6, NodeAppended, Zenon
    <3>8. Begun(Blocks, q) = Len(nodes) + 1 BY <3>6, OneMoreBegun
    <3>9. Len(t) = Len(nodes) + 1 BY <2>11, <3>2, Appended DEF Listed
    <3> QED BY <3>7, <3>8, <3>9
  <2>13. FileRead'
    <3>1. Punctuated(first - 1)'
      <4>1. first' - 1 = serverEnd BY <2>1, <2>2, <2>3
      <4> QED BY <1>4, <1>19, <4>1 DEF Punctuated, Type
    <3>2. \A p \in handled' : p < first' BY <1>4, <2>1, <2>2, <2>9
    <3>3. \A p \in Keys' : p < first' => p \in handled' BY <1>4, <1>15, <2>1, <2>2, <2>8
    <3>4. Begun(Blocks', first') = Len(nodes')
      BY <1>15, <2>1, <2>2, <2>11, <2>12
    <3>5. NodesRead(tokens, Keys, Blocks, nodes, first)'
      BY <1>4, <1>15, <2>1, <2>2, <2>11, <2>12
    <3> QED BY <3>1, <3>2, <3>3, <3>4, <3>5 DEF FileRead
  <2> QED BY <1>18, <2>1, <2>13 DEF ReadInv, Accepted
<1> QED BY <1>8, <1>9, <1>21, <1>22

-----------------------------------------------------------------------------
(* Every step                                                              *)

(* A directive of a server is handled, or lists a location.                *)
LEMMA ServerDirectiveReads == ASSUME ParseInv, ReadInv, ServerDirective PROVE ReadInv'
<1>1. Tokens /\ Limited(srv) /\ first \in Nat
  BY TokensListed DEF ParseInv, Current, Cursor, Listed
<1>2. CASE handleLocation
  <2>1. Halts \/ \E spec : SpanRuns(spec) BY <1>1, <1>2, LocationSpans
  <2> QED BY <2>1, HaltsReads, SpanRunsReads
<1>3. CASE ~handleLocation
  <2>1. Halts \/ ServerRuns
    BY <1>1, <1>3, HostRuns, ArgumentDirectivesRun, ArgumentsDirectivesRun, WatchedDirectivesRun
       DEF ServerDirective
  <2> QED BY <2>1, HaltsReads, ServerRunsReads
<1> QED BY <1>2, <1>3

(* A directive of a location is handled at a cursor that is not at its end. *)
LEMMA LocationDirectiveReads == ASSUME ParseInv, ReadInv, LocationDirective PROVE ReadInv'
<1>1. Tokens /\ first \in Nat BY TokensListed DEF ParseInv, Cursor, Listed
<1>2. first # second
  BY Zenon DEF LocationDirective, handleCGI_timeout_sec, handleLocationAutoindex,
     handleLocationRoot, handleAlias, handleLocationIndex, LocationText, handleUpload_store,
     handleRedirect, handleCgi, handleAllowedMethods, handleLocationError_page, Handles
<1>3. Halts \/ LocationRuns BY <1>1, LocationDirectivesRun
<1> QED BY <1>2, <1>3, HaltsReads, LocationRunsReads

(* Whatever stands for no directive ends the parser.                       *)
LEMMA NoDirectiveReads == ASSUME ReadInv, NoDirective PROVE ReadInv'
<1>1. Halts BY DEF NoDirective, Reject, Ends, Halts
<1> QED BY <1>1, HaltsReads

(* The listeners and the connections only read what was parsed.            *)
LEMMA NetReads ==
  ASSUME ReadInv,
         \/ GroupServers \/ OpenListener \/ OpenFails \/ buildTimeoutList
         \/ acceptClients \/ Request \/ CloseClient
  PROVE  ReadInv'
<1>1. /\ ctx \in {"accepted", "binding", "running"}
      /\ ctx' \in {"binding", "running", "ended"}
      /\ UNCHANGED <<tokens, nodes, handled>>
  BY DEF GroupServers, OpenListener, OpenFails, buildTimeoutList, acceptClients, Request,
         CloseClient, Ends, parseVars
<1>2. Accepted BY <1>1 DEF Accepted
<1> QED BY <1>1, <1>2, AcceptedReads

(* Every step keeps what is known of the tokens behind the cursor.         *)
LEMMA ReadInvKept == ASSUME ParseInv, ReadInv, [Next]_vars PROVE ReadInv'
<1>1. CASE Parse
  BY <1>1, ParseNodesReads, ServerDirectiveReads, CheckServerReads, LocationDirectiveReads,
     CheckLocationReads, NoDirectiveReads DEF Parse
<1>2. CASE \/ GroupServers \/ OpenListener \/ OpenFails \/ buildTimeoutList
           \/ acceptClients \/ Request \/ CloseClient
  BY <1>2, NetReads
<1>3. CASE UNCHANGED vars
  <2>1. UNCHANGED <<tokens, first, second, ctx, srv, specs, serverEnd, nodes, handled>>
    BY <1>3 DEF vars, parseVars
  <2>2. Keys' = Keys /\ Blocks' = Blocks /\ Words' = Words BY <2>1, WordsKept
  <2>3. FileRead => FileRead' BY <2>1, <2>2 DEF FileRead, Punctuated, Type
  <2>4. ASSUME NEW o PROVE ServerRead(o) => ServerRead(o)'
    BY <2>1, <2>2 DEF ServerRead, Opens, Read, Waiting, InBody
  <2>5. ASSUME NEW o PROVE LocationRead(o) => LocationRead(o)'
    BY <2>1, <2>2 DEF LocationRead, Opens, Read, Waiting, InBody
  <2>6. Punctuated(second)' = Punctuated(second) /\ Punctuated(serverEnd)' = Punctuated(serverEnd)
    BY <2>1 DEF Punctuated, Type
  <2> QED BY <2>1, <2>2, <2>3, <2>4, <2>5, <2>6 DEF ReadInv, Accepted
<1> QED BY <1>1, <1>2, <1>3 DEF Next

(* What the cursor has passed has been handled, or waits in a location that *)
(* is listed, and every finished block has what its own keys wrote.        *)
LEMMA ReadCorrect == Spec => [](ParseInv /\ ReadInv)
<1>1. Init => ParseInv /\ ReadInv BY ParseInitially, ReadInitially
<1>2. ParseInv /\ ReadInv /\ [Next]_vars => ParseInv' /\ ReadInv'
  BY ParseInvKept, ReadInvKept
<1> QED BY <1>1, <1>2, PTL DEF Spec

(* Every directive of an accepted file has been handled, whatever the file *)
(* lacks: a cursor that has run past the end of its block, which a ';' left *)
(* out in front of a '}' does, never comes back to it, and such a file is  *)
(* not taken.                                                              *)
THEOREM NothingIsSkipped == Spec => []NothingSkipped
<1>1. ReadInv => NothingSkipped BY DEF ReadInv, NothingSkipped
<1> QED BY <1>1, ReadCorrect, PTL

(* What one block wrote for one limit.                                     *)
LEMMA ObeysWritten ==
  ASSUME NEW i, NEW key, NEW v, NEW d,
         NEW P, P = {p \in Block(i) \cap Keys : tokens[p].text = key}, Obeys(tokens, P, v, d)
  PROVE  AsWritten(i, key, v, d)
<1>1. Written(i, key) = {tokens[p + 1].text : p \in P} BY DEF Written
<1>2. P = {} => v = d BY DEF Obeys
<1>3. \A p \in P : LET n == ValueOf(tokens[p + 1].text) IN n <= IntMax => v = n BY DEF Obeys
<1>4. Written(i, key) = {} => P = {} BY <1>1
<1>5. ASSUME NEW t \in Written(i, key), ValueOf(t) <= IntMax PROVE v = ValueOf(t)
  <2>1. PICK p \in P : t = tokens[p + 1].text BY <1>1
  <2> QED BY <1>3, <1>5, <2>1
<1> QED BY <1>2, <1>4, <1>5, Zenon DEF AsWritten

(* The limits of every accepted server are those its own block writes, or  *)
(* the defaults: a cursor that runs on takes nothing from a block next to  *)
(* it, and no block leaves anything to the next.                           *)
THEOREM AcceptedAsWritten == Spec => []ValuesAsWritten
<1>1. ASSUME ParseInv, ReadInv, Accepted, NEW i \in DOMAIN nodes, NEW f \in Watched
      PROVE  AsWritten(i, KeyOf[f], nodes[i][f], Defaults[f])
  <2>1. PICK P : P = {p \in Block(i) \cap Keys : tokens[p].text = KeyOf[f]} OBVIOUS
  <2>2. PICK S : S = {p \in Keys : At(Blocks, p) = i /\ p < Len(tokens) + 1} OBVIOUS
  <2>3. Complies(tokens, S, nodes[i], Defaults) BY <1>1, <2>2 DEF ReadInv, NodesRead
  <2>4. Len(tokens) \in Nat /\ DOMAIN tokens = 1 .. Len(tokens)
    BY <1>1, TokensListed DEF ParseInv, Listed
  <2>5. \A p \in Keys : p \in DOMAIN tokens /\ p < Len(tokens) + 1 BY <2>4 DEF Keys
  <2>6. \A p : p \in S <=> p \in Block(i) \cap Keys BY <2>2, <2>5 DEF Block, At
  <2>7. {p \in S : tokens[p].text = KeyOf[f]} = P BY <2>1, <2>6, Zenon
  <2>8. Obeys(tokens, P, nodes[i][f], Defaults[f]) BY <2>3, <2>7, Zenon DEF Complies
  <2> QED BY <2>1, <2>8, ObeysWritten
<1>2. /\ Defaults["max_body_size"] = 100000 /\ Defaults["header_cap"] = 8192
      /\ Defaults["client_timeout_sec"] = 60
  BY DEF Defaults
<1>3. ParseInv /\ ReadInv => ValuesAsWritten
  <2> SUFFICES ASSUME ParseInv, ReadInv, Accepted, NEW i \in DOMAIN nodes
               PROVE  /\ AsWritten(i, "client_max_body_size", nodes[i].max_body_size, 100000)
                      /\ AsWritten(i, "client_header_buffer_size", nodes[i].header_cap, 8192)
                      /\ AsWritten(i, "client_timeout_sec", nodes[i].client_timeout_sec, 60)
    BY DEF ValuesAsWritten
  <2>1. \A f \in Watched : AsWritten(i, KeyOf[f], nodes[i][f], Defaults[f]) BY <1>1
  <2> QED BY <1>2, <2>1, WatchedKeys
<1> QED BY <1>3, ReadCorrect, PTL

=============================================================================
