----------------------------- MODULE MCListeners -----------------------------
(* Instances of Listeners: server blocks with every directive, well and     *)
(* ill written, alone and in pairs that share an address or do not.         *)
EXTENDS Listeners

D(key, args) == <<key>> \o args \o <<";">>
Located(path, body) == <<"location", path, "{">> \o body \o <<"}">>
Served(body) == <<"server", "{">> \o body \o <<"}">>

Basic == D("root", <<"www">>) \o D("error_page", <<"404", "500", "e.html">>)
Plain == Located("/", << >>)
Site(host, port, name, more) ==
  Served(Basic \o D("host", <<host>>) \o D("listen", <<port>>) \o D("server_name", <<name>>) \o more)
One(more) == Served(Basic \o D("listen", <<"80">>) \o D("server_name", <<"a", "b">>) \o more \o Plain)
OneLocation(body) == One(Located("/ab", body))

(* Directives of a server, good and bad. *)
ServerExtras ==
  {D("listen", <<"81">>), D("backlog", <<"10">>), D("backlog", <<"0">>), D("client_timeout_sec", <<"5">>),
   D("client_timeout_sec", <<"90000">>), D("autoindex", <<"on">>), D("autoindex", <<"off">>),
   D("autoindex", <<"on">>) \o D("autoindex", <<"off">>), D("autoindex", <<"off">>) \o D("autoindex", <<"on">>),
   D("client_max_body_size", <<"1M">>), D("client_max_body_size", <<"2M">>), D("client_max_body_size", <<"3M">>),
   D("client_max_body_size", <<"20K">>), D("client_max_body_size", <<"x">>),
   D("body_ram_threshold", <<"0">>) \o D("client_max_body_size", <<"2M">>),
   D("body_ram_threshold", <<"0">>) \o D("client_max_body_size", <<"K">>),
   D("client_max_body_size", <<"2M">>) \o D("body_ram_threshold", <<"0">>),
   D("client_header_buffer_size", <<"1K">>), D("client_header_buffer_size", <<"10">>),
   D("client_header_buffer_size", <<"1M">>),
   D("client_header_buffer_size", <<"2M">>), D("host", <<"127.0.0.1:80">>), D("host", <<"127.0.0.1">>),
   D("host", <<"localhost">>), D("index", <<"i.html">>), D("index", << >>), D("server_name", <<"b">>),
   D("error_page", <<"405", "/e.html">>), D("error_page", <<"404", "e.html">>), D("error_page", <<"e.html">>),
   D("error_page", <<"80", "e.html">>), D("error_page", << >>), D("rot", <<"x">>), <<"listen", "80">>,
   D("root", <<"www", "www">>), <<";">>, D("listen", <<"-1">>)}

LocationBodies ==
  {D("cgi_timeout_sec", <<"5">>), D("cgi_timeout_sec", <<"x">>), D("autoindex", <<"on">>), D("root", <<"docs">>),
   D("root", <<"docs">>) \o D("alias", <<"docs">>), D("alias", <<"docs">>) \o D("root", <<"docs">>),
   D("alias", <<"docs">>), D("index", <<"i.html">>), D("upload_store", <<"up">>),
   D("return", <<"301", "/x">>), D("return", <<"/x">>), D("return", <<"301">>), <<"return", "301">>,
   D("return", <<"-1", "/x">>), D("cgi", <<".py", "py">>) \o D("cgi", <<".py", "py">>), D("cgi", <<".py">>),
   D("allowed_methods", <<"GET", "POST">>), D("allowed_methods", <<"PUT">>), D("allowed_methods", << >>),
   D("error_page", <<"404", "/x">>), D("error_page", <<"x", "/x">>),
   D("root", <<"docs">>) \o <<"index", "i.html">>, <<"index", "i.html">>, D("listen", <<"80">>)}

(* Blocks whose last directive has no ';', alone and before another. *)
Unended == Served(Basic \o D("listen", <<"80">>) \o Plain \o <<"server_name", "a">>)
Broken ==
  {<< >>, <<"server">>, <<"server", "x">>, <<"server", "{">>, <<"http", "{", "}">>, <<"server", "{", "}">>,
   Unended, Unended \o One(<< >>), Unended \o <<"root">>, Unended \o Plain,
   Unended \o <<"location", "/a", "{">>, Basic, One(<< >>) \o Unended,
   One(<<"location", "/a">>), One(<<"location", "{", "}">>), One(Plain),
   One(Located("/a", <<"index", "i.html", "{", "}">>))}

(* Locations in every order. *)
Paths == <<"/", "/a", "/ab", "/b">>
Orders == {One(Located(p, << >>) \o Located(q, << >>) \o Located(r, D("index", <<"i.html">>))) :
             p, q, r \in {Paths[i] : i \in 2 .. 4}}

(* Two or three server blocks. *)
Sites == {Site(h, "80", n, D("client_timeout_sec", <<t>>) \o Plain) :
            h \in {"0.0.0.0", "127.0.0.1", "127.0.0.2"}, n \in {"a", "b"}, t \in {"5", "10"}}
Pairs == {x \o y : x \in Sites, y \in Sites}
Three == {Site("127.0.0.2", "80", "a", Plain) \o Site("127.0.0.1", "80", "b", Plain) \o
          Site("127.0.0.2", "80", "b", D("client_timeout_sec", <<"5">>) \o Plain)}

(* An argument may be any word. *)
Namesake == Site("127.0.0.1", "80", "server", D("client_timeout_sec", <<"5">>) \o Plain)

TheFiles ==
  {One(x) : x \in ServerExtras} \cup {OneLocation(x) : x \in LocationBodies}
  \cup Broken \cup Orders \cup Pairs \cup Three \cup {Namesake, Namesake \o Namesake}

Numbers ==
  [t \in {"", "0", "1", "2", "3", "5", "10", "20", "80", "81", "301", "404", "405", "500", "90000", "-1"} |->
     CASE t \in {"", "0"} -> 0 [] t = "1" -> 1 [] t = "2" -> 2 [] t = "3" -> 3 [] t = "5" -> 5 [] t = "10" -> 10
       [] t = "20" -> 20 [] t = "80" -> 80 [] t = "81" -> 81 [] t = "301" -> 301 [] t = "404" -> 404
       [] t = "405" -> 405 [] t = "500" -> 500 [] t = "90000" -> 90000 [] t = "-1" -> -1]
Units ==
  [t \in {"K", "1K", "20K", "1M", "2M", "3M"} |->
     CASE t = "K" -> [digits |-> "", factor |-> 1000] [] t = "1K" -> [digits |-> "1", factor |-> 1000] [] t = "20K" -> [digits |-> "20", factor |-> 1000]
       [] t = "1M" -> [digits |-> "1", factor |-> 1000000] [] t = "2M" -> [digits |-> "2", factor |-> 1000000]
       [] t = "3M" -> [digits |-> "3", factor |-> 1000000]]
HostPorts == [t \in {"127.0.0.1:80"} |-> [ip |-> "127.0.0.1", port |-> "80"]]
Quads == {"0.0.0.0", "127.0.0.1", "127.0.0.2"}
Characters ==
  [p \in {"/", "/a", "/ab", "/b"} |->
     CASE p = "/" -> <<"/">> [] p = "/a" -> <<"/", "a">> [] p = "/b" -> <<"/", "b">>
       [] p = "/ab" -> <<"/", "a", "b">>]

Line(key, found) == [key |-> key, found |-> found]
Get     == Line("get / http/1.1", "none")
Query   == Line("get /?u=http", "8081/ http/1.1")     \* GET /?u=http://localhost:8081/ HTTP/1.1
Host(n) == Line("host", n)
Lines ==
  {<<Get>>, <<Get, Host("a")>>, <<Get, Host("b")>>, <<Get, Host("c")>>,
   <<Get, Line("referer", "none"), Host("b")>>,
   <<Query>>, <<Query, Host("b")>>,
   <<Get, Line("referer", "b"), Host("a")>>,          \* Referer: http://x/?host:b:
   <<Get, Line("x-forwarded-host", "b"), Host("a")>>,
   <<Get, Host("a"), Line("x-forwarded-host", "b")>>}

(* Bind keys are compared as text.                                         *)
PortTexts == <<"0", "1", "10", "2", "20", "3", "301", "404", "405", "5", "500", "80", "81">>
Keyed == FlattenSeq([i \in 1 .. 3 |->
  [n \in DOMAIN PortTexts |-> [ip |-> <<"0.0.0.0", "127.0.0.1", "127.0.0.2">>[i], port |-> Numbers[PortTexts[n]]]]])
=============================================================================
