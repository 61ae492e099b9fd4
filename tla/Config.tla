-------------------------------- MODULE Config --------------------------------
(***************************************************************************)
(* The configuration file: Parsing::parseNodes finds the server blocks,    *)
(* Server and Location take one directive after the other with a cursor    *)
(* over the token vector (_Context.first) that stops when it is equal to   *)
(* the end of the block (_Context.second), not when it is past it.         *)
(* Whatever is read past the last token is undefined.                      *)
(***************************************************************************)
EXTENDS Integers, Sequences, FiniteSets, SequencesExt

CONSTANTS
  Files,        \* configuration files: the texts of their tokens
  Number,       \* [text -> value]: texts strtol takes wholly and int holds
  Suffixed,     \* [text -> [digits, factor]]: texts that end in K or M
  HostPort,     \* [text -> [ip, port]]: texts with a colon
  Ipv4,         \* dotted quads
  PathOf,       \* [text -> sequence of characters]
  Relative,     \* texts that do not start with a slash
  IntMax        \* INT_MAX, and INT_MIN = - IntMax - 1

ASSUME IntAssumption ==
  /\ IntMax \in Nat /\ IntMax >= 100000
  /\ \A t \in DOMAIN Number : Number[t] \in -IntMax - 1 .. IntMax
  /\ \A t \in DOMAIN Suffixed : Suffixed[t].factor \in {1000, 1000000}
  /\ DOMAIN Number \cap DOMAIN Suffixed = {}

(* Files and paths are sequences; different paths are spelled differently, *)
(* and the spelling of every path a file gives to a location is known.     *)
ASSUME FileAssumption ==
  /\ \A f \in Files : f \in Seq(ToSet(f))
  /\ \A f \in Files : \A i \in 1 .. Len(f) - 1 :
       f[i] = "location" /\ f[i + 1] \notin {"{", "}", ";"} => f[i + 1] \in DOMAIN PathOf

ASSUME PathAssumption ==
  /\ \A t \in DOMAIN PathOf : PathOf[t] \in Seq(ToSet(PathOf[t]))
  /\ \A t, u \in DOMAIN PathOf : PathOf[t] = PathOf[u] => t = u

VARIABLES
  tokens, first, second,
  ctx,          \* "file", "server", "location", or how it ended
  srv, specs,   \* the Server and its _locSpec
  loc,          \* the Location
  serverEnd,    \* second of the Server while its Locations are parsed
  nodes,        \* the servers done
  handled       \* history: tokens whose handler has run, for the current and done blocks

parseVars == <<tokens, first, second, ctx, srv, specs, loc, serverEnd, nodes, handled>>

(* A relative path is taken under the root of the server. *)
Rooted(text, root) == [under |-> IF text \in Relative THEN root ELSE "", path |-> text]
NoPath == [under |-> "", path |-> ""]

Unset == -1
NewServer ==
  [port |-> Unset, backlog |-> Unset, client_timeout_sec |-> Unset, max_body_size |-> Unset,
   body_ram_threshold |-> Unset, header_cap |-> Unset, autoindex |-> FALSE, host |-> "",
   root |-> "", index |-> "", name |-> << >>, error_pages |-> {}, location |-> << >>]
NewLocation ==
  [path |-> "", autoindex |-> FALSE, cgi_timeout_sec |-> Unset, root |-> "", alias |-> "",
   index |-> "", upload_store |-> NoPath, redirect |-> [code |-> Unset, to |-> ""], cgi |-> {},
   allowedMethods |-> << >>, error_pages |-> {}]

(* tokenAppend: a word is a key after one of these or at the start.        *)
Punctuation == [BlockStart |-> "{", BlockEnd |-> "}", SimpleEnd |-> ";"]
IsPunctuation(text) == \E t \in DOMAIN Punctuation : Punctuation[t] = text
TokenType(file, i) ==
  IF IsPunctuation(file[i]) THEN CHOOSE t \in DOMAIN Punctuation : Punctuation[t] = file[i]
  ELSE IF i = 1 \/ IsPunctuation(file[i - 1]) THEN "Key" ELSE "Argument"
tokenise(file) == [i \in DOMAIN file |-> [text |-> file[i], type |-> TokenType(file, i)]]

ParseInit ==
  /\ tokens \in {tokenise(f) : f \in Files}
  /\ first = 1 /\ second = 1 /\ serverEnd = 0
  /\ ctx = "file"
  /\ srv = NewServer /\ loc = NewLocation /\ specs = << >>
  /\ nodes = << >> /\ handled = {}

-----------------------------------------------------------------------------
(* Reading tokens *)

Type(p)  == IF p \in DOMAIN tokens THEN tokens[p].type ELSE "undefined"
Text(p)  == IF p \in DOMAIN tokens THEN tokens[p].text ELSE ""
IsArgument(p) == p # second /\ Type(p) = "Argument"
Argument == first + 1

Ends(how) == ctx' = how /\ UNCHANGED <<tokens, first, second, srv, specs, loc, serverEnd, nodes, handled>>
Reject == Ends("rejected")

Handles(block, key) ==
  /\ ctx = block /\ first # second
  /\ Type(first) = "Key" /\ Text(first) = key /\ Type(Argument) # "undefined"

(* A handler that does not throw leaves the cursor at last; a ';' or a '}' *)
(* has to follow.                                                          *)
Finish(ok, last, effect) ==
  IF ~ok THEN Reject
  ELSE IF Type(last + 1) = "undefined" THEN Ends("undefined")
  ELSE IF Type(last + 1) \notin {"SimpleEnd", "BlockEnd"} THEN Reject
  ELSE /\ effect
       /\ first' = last + 2
       /\ handled' = handled \cup {first}
       /\ UNCHANGED <<tokens, second, ctx, serverEnd, nodes>>

SetServer(ok, field, value, last) ==
  Finish(ok, last, srv' = [srv EXCEPT ![field] = value] /\ UNCHANGED <<specs, loc>>)
SetLocation(ok, field, value, last) ==
  Finish(ok, last, loc' = [loc EXCEPT ![field] = value] /\ UNCHANGED <<specs, srv>>)

(* stoiServer, stoiLocation: Bad where they throw. *)
Bad == -2
stoi(text, value) ==
  IF value # Unset \/ text \notin DOMAIN Number THEN Bad
  ELSE IF Number[text] < 0 THEN Bad ELSE Number[text]

Stoi(value) == IF IsArgument(Argument) THEN stoi(Text(Argument), value) ELSE Bad

(* Mutant: the product is kept in something wider. *)
WrapNot(n) == n

(* A product of ints. *)
Wrap(n) == ((n + IntMax + 1) % (2 * (IntMax + 1))) - IntMax - 1
FactorAlwaysKilo(text) == IF text \in DOMAIN Suffixed THEN 1000 ELSE 1   \* mutant
Factor(text) == IF text \in DOMAIN Suffixed THEN Suffixed[text].factor ELSE 1
NumberPart(text) == IF text \in DOMAIN Suffixed THEN Suffixed[text].digits ELSE text
Size(value) ==
  IF ~IsArgument(Argument) THEN Bad
  ELSE LET n == stoi(NumberPart(Text(Argument)), value)
       IN IF n = Bad THEN Bad ELSE Wrap(n * Factor(Text(Argument)))

Switch(on) == Text(Argument) = "on"
SwitchOk(on) == IsArgument(Argument) /\ ~on /\ Text(Argument) \in {"on", "off"}

(* The arguments that follow the key. *)
ArgumentEnd(p) == Min({q \in p .. Len(tokens) + 1 : ~IsArgument(q)})
Arguments == [i \in 1 .. ArgumentEnd(Argument) - Argument |-> Text(first + i)]

-----------------------------------------------------------------------------
(* Parsing::parseNodes and setContext *)

Closing(open) ==
  {e \in open .. Len(tokens) :
     Cardinality({p \in open .. e : tokens[p].type = "BlockStart"})
       = Cardinality({p \in open .. e : tokens[p].type = "BlockEnd"})}

parseNodes ==
  /\ ctx = "file"
  /\ IF first > Len(tokens) THEN Ends(IF tokens = << >> THEN "rejected" ELSE "accepted")
     ELSE IF Text(first) # "server" THEN Reject
     ELSE IF Type(first + 1) = "undefined" THEN Ends("undefined")
     ELSE IF Type(first + 1) # "BlockStart" \/ Closing(first + 1) = {} THEN Reject
     ELSE /\ first' = first + 2
          /\ second' = Min(Closing(first + 1))
          /\ ctx' = "server"
          /\ srv' = NewServer /\ specs' = << >>
          /\ UNCHANGED <<tokens, loc, serverEnd, nodes, handled>>

-----------------------------------------------------------------------------
(* Server: one action per directive. *)

MaxPort == 65535
handlePort ==
  /\ Handles("server", "listen")
  /\ LET n == Stoi(srv.port) IN SetServer(n # Bad /\ n <= MaxPort, "port", n, Argument)

SOMAXCONN == 4096
handleBacklog ==
  /\ Handles("server", "backlog")
  /\ LET n == Stoi(srv.backlog) IN SetServer(n \in 1 .. SOMAXCONN, "backlog", n, Argument)

MaxTimeout == 86400
handleClient_timeout_sec ==
  /\ Handles("server", "client_timeout_sec")
  /\ LET n == Stoi(srv.client_timeout_sec)
     IN SetServer(n # Bad /\ n <= MaxTimeout, "client_timeout_sec", n, Argument)

handleMax_body_size ==
  /\ Handles("server", "client_max_body_size")
  /\ LET n == Size(srv.max_body_size) IN SetServer(n # Bad, "max_body_size", n, Argument)

handleBody_ram_threshold ==
  /\ Handles("server", "body_ram_threshold")
  /\ LET n == Stoi(srv.body_ram_threshold)
     IN SetServer(n # Bad /\ (srv.max_body_size # Unset => n <= srv.max_body_size),
                  "body_ram_threshold", n, Argument)

handleHeader_cap ==
  /\ Handles("server", "client_header_buffer_size")
  /\ LET n == Size(srv.header_cap) IN SetServer(n # Bad /\ n >= 512, "header_cap", n, Argument)

handleAutoindex ==
  /\ Handles("server", "autoindex")
  /\ SetServer(SwitchOk(srv.autoindex), "autoindex", Switch(srv.autoindex), Argument)

(* host may also set the port. *)
handleHost ==
  /\ Handles("server", "host")
  /\ LET text == Text(Argument)
         split == text \in DOMAIN HostPort
         ip   == IF split THEN HostPort[text].ip ELSE text
         port == IF split THEN stoi(HostPort[text].port, srv.port) ELSE srv.port
     IN Finish(/\ srv.host = "" /\ IsArgument(Argument)
               /\ ip \in Ipv4 /\ port # Bad /\ port <= MaxPort,
               Argument,
               srv' = [srv EXCEPT !.host = ip, !.port = port] /\ UNCHANGED <<specs, loc>>)

ServerText(key, field) ==
  /\ Handles("server", key)
  /\ SetServer(srv[field] = "" /\ IsArgument(Argument), field, Text(Argument), Argument)
handleRoot  == ServerText("root", "root")
handleIndex == ServerText("index", "index")

handleName ==
  /\ Handles("server", "server_name")
  /\ SetServer(srv.name = << >> /\ Arguments # << >>, "name", Arguments, first + Len(Arguments))

(* error_page code ... page; a page alone is read and means nothing.       *)
Codes == {Arguments[i] : i \in 1 .. Len(Arguments) - 1}
PagesOk(pages) ==
  /\ Type(ArgumentEnd(Argument)) = "SimpleEnd" /\ Arguments # << >>
  /\ \A t \in Codes : stoi(t, Unset) \in 400 .. 599
  /\ \A p \in pages : \A t \in Codes : stoi(t, Unset) # p.code
  /\ Cardinality(Codes) = Len(Arguments) - 1
NewPages(page) == {[code |-> Number[t], page |-> page] : t \in Codes}

handleError_page ==
  /\ Handles("server", "error_page")
  /\ SetServer(PagesOk(srv.error_pages), "error_pages",
               srv.error_pages \cup NewPages(Last(Arguments)), first + Len(Arguments))

(* Mutant: the order of the file is kept. *)
InsertedLast(spec) == Append(specs, spec)

(* Longer paths first, those of equal length in the order of the file.     *)
Inserted(spec) ==
  LET shorter == {i \in DOMAIN specs : Len(PathOf[specs[i].path]) < Len(PathOf[spec.path])}
  IN IF shorter = {} THEN Append(specs, spec) ELSE InsertAt(specs, Min(shorter), spec)

handleLocation ==
  /\ Handles("server", "location")
  /\ LET opens == IsArgument(Argument) /\ Type(Argument + 1) = "BlockStart"
         end   == Min({p \in Argument + 1 .. Len(tokens) + 1 :
                         p = second \/ Type(p) \in {"BlockEnd", "undefined"}})
         spec  == [path |-> Text(Argument), start |-> Argument + 2, end |-> end]
     IN IF opens /\ Type(end) = "undefined" THEN Ends("undefined")
        ELSE Finish(opens /\ end # second /\ \A i \in DOMAIN specs : specs[i].path # spec.path,
                    end - 1,
                    specs' = Inserted(spec) /\ UNCHANGED <<srv, loc>>)

Default(n, d) == IF n = Unset THEN d ELSE n
Defaults ==
  [backlog |-> SOMAXCONN, client_timeout_sec |-> 60, max_body_size |-> 100000,
   body_ram_threshold |-> 16000, header_cap |-> 8192]
WithDefaults(s) ==
  [s EXCEPT !.backlog = Default(@, Defaults.backlog),
            !.client_timeout_sec = Default(@, Defaults.client_timeout_sec),
            !.max_body_size = Default(@, Defaults.max_body_size),
            !.body_ram_threshold = Default(@, Defaults.body_ram_threshold),
            !.header_cap = Default(@, Defaults.header_cap),
            !.host = IF @ = "" THEN "0.0.0.0" ELSE @,
            !.error_pages = {[code |-> p.code, page |-> Rooted(p.page, s.root)] : p \in @}]

(* Mutant: one location is parsed again and again. *)
EnterLastLocation(i) ==
  /\ loc' = [NewLocation EXCEPT !.path = specs[i].path]
  /\ first' = specs[Len(specs)].start /\ second' = specs[Len(specs)].end

EnterLocation(i) ==
  /\ loc' = [NewLocation EXCEPT !.path = specs[i].path]
  /\ first' = specs[i].start /\ second' = specs[i].end

(* Mutant: the two sizes are not compared. *)
IncompleteUncompared(s) ==
  s.root = "" \/ s.port = Unset \/ s.name = << >> \/ s.error_pages = {} \/ specs = << >>

Incomplete(s) ==
  \/ s.root = "" \/ s.port = Unset \/ s.name = << >> \/ s.error_pages = {}
  \/ s.body_ram_threshold > s.max_body_size \/ specs = << >>

checkServer ==
  /\ ctx = "server" /\ first = second
  /\ LET s == WithDefaults(srv)
     IN IF Incomplete(s) THEN Reject
        ELSE /\ srv' = s /\ ctx' = "location" /\ serverEnd' = second
             /\ EnterLocation(1)
             /\ UNCHANGED <<tokens, specs, nodes, handled>>

-----------------------------------------------------------------------------
(* Location *)

handleCGI_timeout_sec ==
  /\ Handles("location", "cgi_timeout_sec")
  /\ LET n == Stoi(loc.cgi_timeout_sec) IN SetLocation(n # Bad, "cgi_timeout_sec", n, Argument)

handleLocationAutoindex ==
  /\ Handles("location", "autoindex")
  /\ SetLocation(SwitchOk(loc.autoindex), "autoindex", Switch(loc.autoindex), Argument)

LocationText(key, ok) ==
  /\ Handles("location", key)
  /\ SetLocation(loc[key] = "" /\ IsArgument(Argument) /\ ok, key, Text(Argument), Argument)
handleLocationRoot == LocationText("root", loc.alias = "")
handleAlias        == LocationText("alias", loc.root = "")
handleLocationIndex == LocationText("index", TRUE)

handleUpload_store ==
  /\ Handles("location", "upload_store")
  /\ SetLocation(loc.upload_store = NoPath /\ IsArgument(Argument),
                 "upload_store", Rooted(Text(Argument), srv.root), Argument)

(* return [code] to: what is no number is the target of a 302. *)
handleRedirect ==
  /\ Handles("location", "return")
  /\ LET n    == Stoi(Unset)
         code == IF n = Bad THEN 302 ELSE n
         at   == IF n = Bad THEN Argument ELSE Argument + 1
     IN SetLocation(loc.redirect.code = Unset /\ IsArgument(Argument), "redirect",
                    [code |-> code, to |-> IF IsArgument(at) THEN Text(at) ELSE ""], at)

handleCgi ==
  /\ Handles("location", "cgi")
  /\ LET run == [extension |-> Text(Argument), command |-> Rooted(Text(Argument + 1), srv.root)]
         known == {r \in loc.cgi : r.extension = run.extension}
     IN SetLocation(IsArgument(Argument) /\ IsArgument(Argument + 1), "cgi",
                    IF known = {} THEN loc.cgi \cup {run} ELSE loc.cgi, Argument + 1)

handleAllowedMethods ==
  /\ Handles("location", "allowed_methods")
  /\ SetLocation(/\ loc.allowedMethods = << >> /\ Arguments # << >>
                 /\ ToSet(Arguments) \subseteq {"GET", "POST", "DELETE"},
                 "allowedMethods", Arguments, first + Len(Arguments))

handleLocationError_page ==
  /\ Handles("location", "error_page")
  /\ SetLocation(PagesOk(loc.error_pages), "error_pages",
                 loc.error_pages \cup NewPages(Rooted(Last(Arguments), srv.root)), first + Len(Arguments))

LocationDefaults(l) ==
  [l EXCEPT !.cgi_timeout_sec = Default(@, 60),
            !.root = IF @ = "" /\ l.alias = "" THEN srv.root ELSE @,
            !.error_pages = IF @ = {} THEN srv.error_pages ELSE @]

(* The last location completes its server, the next block is looked for.   *)
checkLocation ==
  /\ ctx = "location" /\ first = second
  /\ LET s == [srv EXCEPT !.location = Append(@, LocationDefaults(loc))]
         n == Len(s.location)
     IN /\ srv' = s
        /\ IF n < Len(specs)
           THEN EnterLocation(n + 1) /\ UNCHANGED <<ctx, nodes>>
           ELSE /\ nodes' = Append(nodes, s) /\ ctx' = "file"
                /\ first' = serverEnd + 1 /\ UNCHANGED <<second, loc>>
  /\ UNCHANGED <<tokens, specs, serverEnd, handled>>

-----------------------------------------------------------------------------
(* fillDirectiveMap *)
ServerKeys == {"listen", "backlog", "autoindex", "host", "index", "server_name", "root",
  "body_ram_threshold", "client_timeout_sec", "client_max_body_size",
  "client_header_buffer_size", "error_page", "location"}
LocationKeys == {"autoindex", "cgi_timeout_sec", "root", "alias", "index", "upload_store",
  "return", "cgi", "allowed_methods", "error_page"}

(* parseDirectives, where there is no directive to handle. *)
IsDirective == Type(first) = "Key" /\ Text(first) \in (IF ctx = "server" THEN ServerKeys ELSE LocationKeys)
NoDirective ==
  /\ ctx \in {"server", "location"} /\ first # second
  /\ \/ Type(first) # "undefined" /\ ~IsDirective /\ Reject
     \/ (Type(first) = "undefined" \/ (IsDirective /\ Type(Argument) = "undefined")) /\ Ends("undefined")

ServerDirective ==
  \/ handlePort \/ handleBacklog \/ handleClient_timeout_sec \/ handleMax_body_size
  \/ handleBody_ram_threshold \/ handleHeader_cap \/ handleAutoindex \/ handleHost
  \/ handleRoot \/ handleIndex \/ handleName \/ handleError_page \/ handleLocation
LocationDirective ==
  \/ handleCGI_timeout_sec \/ handleLocationAutoindex \/ handleLocationRoot \/ handleAlias
  \/ handleLocationIndex \/ handleUpload_store \/ handleRedirect \/ handleCgi
  \/ handleAllowedMethods \/ handleLocationError_page

Parse ==
  parseNodes \/ ServerDirective \/ checkServer \/ LocationDirective \/ checkLocation \/ NoDirective

-----------------------------------------------------------------------------
(* What a server block that was accepted promises.                         *)

(* The limits of every server are in range, whatever product of a number   *)
(* and its unit left the range of int on the way: a body limit that became *)
(* negative is caught by no check of its own, but by the comparison with   *)
(* the threshold, in checkDirectives or before, in either order.           *)
LimitsInRange ==
  \A i \in DOMAIN nodes : LET s == nodes[i] IN
    /\ s.port \in 0 .. MaxPort /\ s.backlog \in 1 .. SOMAXCONN
    /\ s.client_timeout_sec \in 0 .. MaxTimeout /\ s.header_cap \in 512 .. IntMax
    /\ 0 <= s.body_ram_threshold /\ s.body_ram_threshold <= s.max_body_size
    /\ s.max_body_size <= IntMax

(* README: the most specific location answers.  The router takes the first *)
(* whose path is a prefix, so none may come after one that is a prefix of  *)
(* it, wherever the file has it and whatever was inserted in between.      *)
NoneShadowed ==
  \A i \in DOMAIN nodes : \A j, k \in DOMAIN nodes[i].location :
    j < k => ~IsPrefix(PathOf[nodes[i].location[j].path], PathOf[nodes[i].location[k].path])

Accepted == ctx \notin {"file", "server", "location", "rejected", "undefined"}
Keys == {p \in DOMAIN tokens : tokens[p].type = "Key" /\ tokens[p].text # "server"}

(* Every directive of an accepted file has been handled, those of every    *)
(* location too: a missing ';' before a '}' lets the cursor run past the   *)
(* end of its block, which must not end in a file taken for good.          *)
NothingSkipped == Accepted => handled = Keys

(* A value of a server is the one its own block writes, as long as an int  *)
(* holds it, or the default: nothing comes from a block next to it or from *)
(* a cursor that ran on.                                                   *)
Blocks == {p \in DOMAIN tokens : tokens[p].type = "Key" /\ tokens[p].text = "server"}
Block(i) == {p \in DOMAIN tokens : Cardinality({b \in Blocks : b <= p}) = i}
Written(i, key) == {tokens[p + 1].text : p \in {q \in Block(i) \cap Keys : tokens[q].text = key}}
ValueOf(text) == Number[NumberPart(text)] * (IF text \in DOMAIN Suffixed THEN Suffixed[text].factor ELSE 1)
AsWritten(i, key, value, default) ==
  IF Written(i, key) = {} THEN value = default
  ELSE \A t \in Written(i, key) : ValueOf(t) <= IntMax => value = ValueOf(t)
ValuesAsWritten ==
  Accepted => \A i \in DOMAIN nodes :
    /\ AsWritten(i, "client_max_body_size", nodes[i].max_body_size, 100000)
    /\ AsWritten(i, "client_header_buffer_size", nodes[i].header_cap, 8192)
    /\ AsWritten(i, "client_timeout_sec", nodes[i].client_timeout_sec, 60)
=============================================================================
