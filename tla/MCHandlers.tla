------------------------------ MODULE MCHandlers ------------------------------
(* Instances of Handlers: the locations of config/colin.conf that matter    *)
(* here, with files, sessions and uploads cut to a few.                     *)
EXTENDS Handlers

CONSTANTS s1, s2, n1, n2, n3, h1, h2, c1

(* djb2Hash gives n1 and n2 one value, as it does for "Ez.txt" and "FY.txt". *)
HashTable == (n1 :> h1) @@ (n2 :> h1) @@ (n3 :> h2)
CutTable  == (n1 :> n3) @@ (n2 :> n3) @@ (n3 :> n3)

Block(path) ==
  [path |-> path, root |-> << >>, alias |-> << >>, index |-> << >>, autoindex |-> FALSE,
   upload_store |-> << >>, redirect |-> 0, cgi |-> FALSE,
   allowedMethods |-> {"GET"}, error_pages |-> << >>]

(* upload_store uploads, below the root of the server, as in the file.      *)
StoreDir == <<"www", "/uploads", "/">>
Blocks ==
  << [Block(<<"/redirect">>) EXCEPT !.redirect = 301],
     [Block(<<"/found">>) EXCEPT !.redirect = 302],
     [Block(<<"/uploads">>) EXCEPT !.allowedMethods = {"GET", "POST", "DELETE"},
        !.upload_store = StoreDir, !.error_pages = (404 :> <<"/404.html">>)],
     [Block(<<"/docs">>) EXCEPT !.root = <<"www2">>, !.autoindex = TRUE],
     [Block(<<"/alias">>) EXCEPT !.alias = <<"docs">>, !.index = <<"manual.html">>],
     [Block(<<"/open">>) EXCEPT !.allowedMethods = {}],
     [Block(<<"/api">>) EXCEPT !.upload_store = StoreDir] >>

TheServer == [root |-> <<"www">>, index |-> <<"index.html">>, autoindex |-> FALSE,
              error_pages |-> (404 :> <<"/gone.html">>)]

TheDirs == {<<"www", "/">>, <<"www2", "/docs">>, <<"docs">>, <<"www", "/uploads">>}
TheSpecials == {<<"www", "/fifo">>}
TheUnreadable == {<<"www", "/secret">>}
TheSite == (<<"www", "/", "index.html">> :> <<"home">>)
            @@ (<<"docs", "/", "manual.html">> :> <<"home">>)
            @@ (<<"www", "/404.html">> :> <<"no such upload">>)
            @@ (<<"www", "/secret">> :> <<"home">>)

Plain(method, path, cookie, close) ==
  [method |-> method, path |-> path, cookie |-> cookie, close |-> close, type |-> "none"]
Upload(path, cookie, part) ==
  [method |-> "POST", path |-> path, cookie |-> cookie, close |-> FALSE,
   type |-> "multipart", part |-> part]
Part(name, content) ==
  [name |-> name, content |-> content, named |-> TRUE, lastHeader |-> FALSE, closed |-> TRUE]

StaticPaths == {<<"/docs">>, <<"/alias">>, <<"/uploads">>, <<"/fifo">>, <<"/secret">>,
                <<"/redirect">>, <<"/found">>,
                <<"/alias", "/", "manual.html">>}
StoreRequests(c, keys) ==
  {Plain("GET", ListUrl, c, FALSE)}
  \cup {Plain("GET", DownloadUrl \o <<"/", h>>, c, FALSE) : h \in keys}
  \cup {Plain("DELETE", DeletePrefix \o <<h>>, c, FALSE) : h \in keys}
  \cup {Plain("GET", DeletePrefix \o <<h>>, c, FALSE) : h \in keys}
Uploads ==
  {Upload(UploadUrl, s1, Part(n1, <<c1>>)),
   Upload(UploadUrl, s2, [Part(n2, << >>) EXCEPT !.closed = FALSE])}
OddPart == [Part(n1, <<c1>>) EXCEPT !.lastHeader = TRUE, !.closed = FALSE]
OddUploads(c) ==
  {Upload(UploadUrl \o <<"/">>, c, OddPart),
   Upload(UploadUrl, c, [OddPart EXCEPT !.named = FALSE]),
   [Upload(UploadUrl, c, OddPart) EXCEPT !.type = "text"],
   Plain("POST", UploadUrl, c, FALSE)}

OddRequests ==
  {Plain("GET", ListUrl, NoCookie, FALSE),
   Plain("GET", DownloadUrl \o <<"/", h1>>, NoCookie, FALSE),
   Plain("GET", DownloadUrl, s1, FALSE), Plain("GET", DownloadUrl \o <<"/">>, s1, FALSE),
   Plain("GET", <<"/missing">>, s1, TRUE),
   Plain("DELETE", DeletePrefix \o <<h1>>, NoCookie, FALSE),
   Plain("DELETE", UploadUrl, s1, FALSE), Plain("DELETE", DeletePrefix, s1, FALSE),
   Plain("DELETE", DeletePrefix \o <<"/", h1>>, s1, FALSE),
   Plain("DELETE", <<"/open">>, s1, FALSE),
   Plain("POST", <<"/missing">>, s1, FALSE), Plain("POST", <<"/docs">>, s1, FALSE)}

(* Every path of the handlers, and two sessions and a cookieless client     *)
(* that upload, list, fetch and delete.                                     *)
Requests ==
  {Plain("GET", path, s1, FALSE) : path \in StaticPaths}
  \cup {Plain("GET", path, NoCookie, FALSE) : path \in {<<"/">>, <<"/missing">>}}
  \cup StoreRequests(s1, {h1, h2}) \cup StoreRequests(s2, {h1})
  \cup Uploads \cup OddUploads(s1) \cup OddRequests

(* What the theorems ask of a configuration, this one has.                 *)
ASSUME ConfigurationAssumption == Lists = {StoreDir} /\ LinksRouted
=============================================================================
