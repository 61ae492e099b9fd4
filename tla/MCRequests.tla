------------------------------ MODULE MCRequests ------------------------------
(* Instances of Requests: hexadecimal cut down to four digits and numbers   *)
(* to four bits, one message of every kind, and up to three on a connection. *)
EXTENDS Requests

DigitTable == [d \in {"0", "1", "2", "3"} |->
                 CASE d = "0" -> 0 [] d = "1" -> 1 [] d = "2" -> 2 [] d = "3" -> 3]

Headers(method) ==
  [method |-> method, line |-> "ok", version |-> "1.1", fields |-> "ok", host |-> 1,
   cookie |-> "ok", chunked |-> FALSE, te |-> "none", framed |-> 0, declared |-> NoLength,
   close |-> FALSE, answer |-> 200, bare |-> FALSE]
Sized(n)  == [Headers("POST") EXCEPT !.framed = n, !.declared = n, !.answer = 201]
Chunked   == [Headers("POST") EXCEPT !.chunked = TRUE, !.te = "chunked"]
Listed    == [Headers("POST") EXCEPT !.chunked = TRUE, !.te = "gzip, chunked", !.answer = 415]

HeadTable ==
  [get |-> Headers("GET"), gone |-> [Headers("GET") EXCEPT !.answer = 404, !.close = TRUE],
   delete |-> [Headers("DELETE") EXCEPT !.answer = 204],
   post |-> Headers("POST"), post0 |-> Sized(0), post1 |-> Sized(1), post2 |-> Sized(2), post4 |-> Sized(4),
   chunked |-> Chunked, both |-> [Chunked EXCEPT !.framed = 2, !.declared = 2],
   listed |-> Listed, listedGet |-> [Listed EXCEPT !.method = "GET"],
   listedBare |-> [Listed EXCEPT !.bare = TRUE],
   (* "transfer-encoding: chunked" is there for the framing only, "gzip" for the parser. *)
   lowerCase |-> [Chunked EXCEPT !.te = "none"], gzip |-> [Listed EXCEPT !.chunked = FALSE, !.te = "gzip"],
   long |-> [Headers("GET") EXCEPT !.line = "long"], lower |-> [Headers("get") EXCEPT !.line = "lower case"],
   put |-> Headers("PUT"), old |-> [Headers("GET") EXCEPT !.version = "1.0"],
   many |-> [Headers("GET") EXCEPT !.fields = "too many"], fold |-> [Headers("GET") EXCEPT !.fields = "folded"],
   nul |-> [Headers("GET") EXCEPT !.fields = "NUL"], stray |-> [Headers("GET") EXCEPT !.fields = "stray CR"],
   nohost |-> [Headers("GET") EXCEPT !.host = 0], tracker |-> [Headers("GET") EXCEPT !.cookie = "other"],
   minus |-> [Sized(0) EXCEPT !.declared = BadLength]]

Message0(head, units, data) ==
  [head |-> head, units |-> units, data |-> data, wellFormed |-> TRUE, trailers |-> FALSE]
Bare(head) == Message0(head, << >>, << >>)
Malformed(head, units) == [Message0(head, units, << >>) EXCEPT !.wellFormed = FALSE]
Chunk(size, data) == size \o Eol \o data \o Eol
LastChunk == <<"0">> \o Eol

(* Data that looks like a line end, a size, or the end of the message. *)
Sly == <<"CR", "LF", "0", "CR", "LF">>
Gets == {Bare(h) : h \in {"get", "gone", "delete", "long", "lower", "put", "old", "many", "fold", "nul", "stray",
                          "nohost", "tracker", "minus", "post", "post0", "gzip"}}
Posts == {Message0("post1", <<"CR">>, <<"CR">>), Message0("post2", <<"x", "1">>, <<"x", "1">>),
          Message0("post2", Eol, Eol),
          Message0("post4", <<"x", "x", "x", "x">>, <<"x", "x", "x", "x">>)}
ChunkedBodies ==
  {Message0(h, Chunk(<<"1", "1">>, Sly) \o Chunk(<<"1", ";", "x">>, <<"x">>) \o LastChunk \o Eol,
            Sly \o <<"x">>) : h \in {"chunked", "listed"}}
  \cup {Message0(h, LastChunk \o Eol, << >>) : h \in {"both", "listedGet", "listedBare", "lowerCase"}}
Trailed == [Message0("listed", LastChunk \o <<"t">> \o Eol \o Eol, << >>) EXCEPT !.trailers = TRUE]
BadChunks ==
  {Malformed("listed", Chunk(<<"x">>, <<"x">>)), Malformed("listed", Chunk(<<"1">>, <<"x", "x">>)),
   Malformed("listed", Chunk(<<"1", "0", "0">>, << >>) \o Eol)}

AnyMessage == Gets \cup Posts \cup ChunkedBodies \cup BadChunks \cup {Trailed}
TheWires ==
  {<<m, Bare("get")>> : m \in AnyMessage}
  \cup {<<m, n, Bare("get")>> : m \in Posts \cup {Bare("get"), Trailed}, n \in ChunkedBodies \cup Posts}

(* EachDeclared holds of these.  EachAlone does because every message comes  *)
(* first in a stream: that it is decoded alone is what BodiesDecoded and     *)
(* StartsAtItsHead say when it arrives in one piece, before the next one.    *)
ASSUME MessagesAssumption == \A m \in AnyMessage : Declared(m)
=============================================================================
