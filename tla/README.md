# A TLA+ model of Webserv

Webserv is an HTTP server of one process and one thread: `main()` reads a
configuration file, opens the listeners and enters `ServerLoop::run()`, an
endless loop around `poll()`. What is hard in it happens in that loop, between
the loop and three parties it does not control (TCP peers, CGI scripts and the
clock), in the decoder that turns pieces of a byte stream into requests, in the
stores that uploads share over all connections, and in a configuration parser
that walks a token vector with a cursor. This directory holds TLA+ modules for
all of these, TLC configurations that check them on small instances, and proofs,
checked by TLAPS, of every safety invariant the configurations check: for any number
of clients, scripts and descriptors, any configuration file, any stream of
requests in any split, and any sessions and failures of the file system.

## The system

| component | source | state | operations |
|---|---|---|---|
| poll set | `PollHelpers.cpp` | `pollFdList_` (vector), `fdIndex_` (descriptor to position) | `addPollFd`, `modifyEvent`, `delPollFd` |
| event loop | `ServerLoop.cpp`, `ServerLoop.hpp` | the four ready lists of a pass, `touched` | `run`, `sweepExpiredClients` |
| client connections | `ServerHelpers.cpp` | `clientList_`: buffers, parse position, flags, deadline of each client | `acceptClients_`, `readOnce_`, `writeOnce_`, `resetKeepAlive_`, `closeClient_` |
| CGI | `cgi/CGI.cpp`, `ServerLoop.cpp` | `CGIMap_` (by pid), `CGIbyRead_`, `CGIbyWrite_` (iterators into it) | `execCGI`, `addPollCGI`, `readOnceCGI_`, `writeOnceCGI_`, `closeCGIRead`, `closeCGIWrite`, `closeCGI` |
| timeouts | `Timeout.cpp` | `expiresAtMs` of clients and contexts, `listenerTimeoutMs_` | `calcNextTimeout`, `setClientTimeout`, `resetClientTimeout`, `buildTimeoutList` |
| body framing, chunks | `ServerHelpers.cpp` | `chunkStage`, `chunkRemain`, `parsePos`, `bodyBuf` | `detectBodyFraming_`, `unchunkStep_` |
| listeners, virtual hosts | `Sockets.cpp`, `VhostHelpers.cpp` | `listenerFdList_`, `listenerOwner_` | `setupListenerSockets`, `vhostPicker_` |
| request parser | `HttpRequestParser.cpp`, `HttpUtils.cpp` | `HttpRequest` | `parseRawRequest` |
| handler, router | `HttpHandler.cpp`, `Router.cpp` | `HttpResponse` | `handleRequest`, `getLocationConfig`, `getResolvedPath` |
| GET | `HttpHandlerGET.cpp` | none of its own | file, directory, `/api/uploads`, `/api/download` |
| uploads, sessions | `HttpHandlerPOST.cpp`, `HttpHandlerDELETE.cpp`, `FileHandler.cpp`, `Cookie.cpp` | `sessionMetadata` (session to keys), `_hashedFileNames` (key to name), the files | `handlePostRequest`, `handleDeleteRequest`, `uploadFile`, `deleteFile`, `setSecureCookie` |
| responses, error pages | `HttpResponse.cpp`, `HttpExceptions.cpp` | none | formatting |
| configuration | `parsing/*.cpp` | the list of `Server` with its `Location`s | `parseNodes` |

How they interact. `run()` copies what `poll()` reported into four lists of
descriptor numbers and serves them in turn: errors, listeners, readers, writers.
Serving one closes, opens and re-masks others; everything is looked up by
descriptor number, in five tables that must agree with each other and with the
kernel. `readOnce_` calls the parser and the handler; a CGI request makes the
handler call back into the loop (`addPollCGI`), with a context that keeps a
*reference* to the client's response and the client's *descriptor number*. The
answer of a script is written into that client by a later pass. Sweeps run at the
end of a pass or when `poll()` times out. The handlers of all connections share
the two maps of sessions and names and the upload directory. Before the loop,
`main()` hands the parsed `Server`s to `setupListenerSockets`, which groups them by
address; a connection gets the group of its listener as candidates and, with its
first request, one of them as its server for good.

What is hard. Peers and scripts act between `poll()` and the call that serves its
report. Numbers are reused within a pass. A client and its script end in any
order. Answers, timeouts and the next request meet in one `outBuff`. A request may
be split anywhere, and what follows it may already be there. An upload is three
writes to three stores, any of which may fail, under a key that sessions may
share and that outlives the memory of its owner. The cursor of the configuration
parser is compared with the end of its block for equality only. The full list,
with lines, is under `hazards` in `PROJECT.json`.

What makes each part correct: the poll set is a table from descriptor to mask;
the loop never serves a descriptor under a role it no longer has, forgets none
and keeps no closed one; a connection carries one whole answer per request, in
order; a script gets its own client's body, its client gets all it wrote, and its
context ends; deadlines are noticed in time and nothing else is closed by them;
the splits of the stream do not show, a body is what was sent and a request starts
where the one before it ended; every file has an owner, only its owner downloads it,
and a refusal changes nothing; an accepted configuration has been read wholly and
holds what was written, and a connection has the server and the timeout its
listener and its first request ask for.

## Modules

- **`PollSet`** is the abstract poll set, a function from descriptors to masks.
  **`PollHelpers`** is the vector with its index, one action per function, and
  implements it (`ImplementsPollSet`, by the refinement mapping `interestBar`).
- **`ServerLoop`** is the loop with clients and CGI over the abstract poll set
  (`interest`). One action is the service of one descriptor by one branch of the
  code, the whole of it: `ReadAndAnswer`, say, is `readOnce_` with all it calls
  when a request that needs no script is complete. Variables have the names of
  the code (`clientList`, `CGIbyRead`, `CGIMap`, `readyReaders`, ...); a `Client`
  is a record in `client`, a `CGIcontext` is split into `ctx` (the numbers it
  holds) and `job` (how far it is). `errFds` etc. are the lists of a pass, `pc`
  tells whether one is being served. The kernel's descriptor table (`fdTable`,
  lowest free number first, as POSIX has it), the peers (`net`), the scripts
  with their two pipes (`script`) and what has been sent (`wire`) are the
  environment.
- **`Timeouts`** is the same loop seen by the clock: when `poll()` returns, what
  deadlines are then, and what a sweep closes. `ServerLoop` has deadlines that
  pass at any time; `Timeouts` is about whether the loop wakes up for them.
- **`Requests`** is one connection seen from the bytes: `readOnce_` with
  `findHeadersEndAndMark_`, `detectBodyFraming_`, the four stages of `unchunkStep_`
  (one operator each, which returns the client and what the stage returns), and
  `parseRawRequest` as the sequence of its checks, of which the first that fails
  decides. `recv()` returns any number of the units the client sends. `c` is the
  `Client`; `erased` and `answers` are history.
- **`Handlers`** is what becomes of a parsed request: router, the handlers of
  the three methods, `Cookie::sessionMetadata` (`sessions`), `_hashedFileNames`
  (`names`) and the files (`disk`). One request is one step, as the loop is
  single-threaded; which calls of it fail is open (`Faults`). `Restart` empties
  memory and keeps the disk.
- **`Config`** is the parser of the configuration: `tokenise` gives tokens their
  type, `parseNodes` finds a server block, then there is one action per directive
  of `Server` and `Location`, over the cursor `first` and the end `second`.
  `checkServer` and `checkLocation` are the two `checkDirectives`, with all they
  fill in and refuse. What is read past the last token ends in `"undefined"`.
- **`Listeners`** extends it to the running server: `GroupServers` and
  `OpenListener` (`setupListenerSockets`), `buildTimeoutList`, `acceptClients`, and
  `Request`, which picks the virtual host. It is the composition of configuration
  and network: the server blocks it groups are those `Config` has accepted.
- **`MC...`** modules give the constants values for TLC.
- **`PollHelpers_proofs`, `ServerLoop_proofs`, `ServerLoopContent_proofs`, `Timeouts_proofs`,
  `Requests_proofs`, `Handlers_proofs`, `Listeners_proofs`** hold the proofs, each about
  the module it is named after (`ServerLoop_proofs` about descriptors,
  `ServerLoopContent_proofs` about bytes; `Listeners_proofs` about `Config` too).
  **`CommonLemmas`** has what several of them need: induction over the numbers of a
  set, the least of them, joining, appending and inserting in sequences.

The modules meet at named places. What `ServerLoop` takes as given of a request,
that it is answered, refused or given to a script, is what `Requests` and
`Handlers` compute; the deadline it lets pass at any time is the one of `Timeouts`,
whose length is the `timeout` of `Listeners`; the locations `Handlers` routes by are
in the order `NoneShadowed` is about.

Definitions whose comment calls them a mutant, or whose names tell of a fault
(`RemoveWithoutReindex`, `ErrorsLogged`, `OwnerLast`, ...), are not used by the
specifications: put in the place of the definition they stand before, each
breaks a property the runs check.

Abstractions of `ServerLoop`. A request is a few units: head units, the last of
which ends the headers, then body units; an answer is two units
`<<request, status, part>>`, so that partial sends, overwritten buffers and mixed
answers show. `recv()` takes all that has arrived: what a 4096 byte buffer would
split, the peer's sending does. `send()` takes any part. The verdict of parser and
handler is a field of the request (`cgi`, `bad`), except for the two that depend
on timing: a request object that was filled before, and bytes behind a request
without a body, are rejected with 400. A script reads, writes and closes when it
likes, at most `MaxOut` units through pipes of `PipeSize`. A reference whose
target is gone (`Dangling`), and the dereference of `end()`, end the process, as
they do in a build with the address sanitizer; otherwise their outcome is undefined.

Abstractions of the others. In `Requests` a head is one token, with a record of
what framing and parser look at (`Heads`). The two read the same header differently:
for framing a body is chunked when the text of its `Transfer-Encoding` has `chunked`
anywhere, in any case of letters (`chunked`); for the parser it has a transfer encoding
when the name is spelled exactly so (`te`). Heads for which only one holds are among
those of the run (`lowerCase`, `gzip`); digits are base 4 and `SIZE_MAX` is 15 so
that sizes overflow; positions are exact. A handler is the code it answers with.
In `Handlers` a path is a sequence of runs of characters, so that prefix matching
and concatenation are those of strings; a file name stands for itself, its hash
for its key, and two names may have one hash. The vector of a session's files is
kept as the number of times each key is in it: its order shows in the text of a
listing only. `StoredHasOwner` and `LinksDelete`
assume that all `upload_store`s name one directory, as in `config/colin.conf`:
`_hashedFileNames` is keyed by the hash alone. In `Listeners` a header block is a sequence
of lines, the request line first, each with its name and with what a search for the text `host:`
finds in it. In `Config` a token is its text, and
what `strtol` and the suffixes make of it are tables; `IntMax` is 2^20 - 1, which
makes 2M leave the range of int and 3M come back into it, as 3000M and 4295M do in the code.

## Runs

`P` passes, `V` must be violated.

| run | | question | instance |
|---|---|---|---|
| `poll_helpers` | P | do vector and index agree, and implement the table? | 4 descriptors, 2 events |
| `static` | P | order of answers, and liveness without CGI | 2 clients with 3 and 2 requests: bodies, split heads, a bad one; one peer pipelines, half-closes and has a timeout, the other may abort |
| `cgi` | P | tables, ready lists, bodies and outputs, with one script and unruly parties; what can end the process | 2 clients that both send a body, 6 descriptors in all, so that numbers run out and return; a deaf script, failing `fork()`, aborts |
| `live_cgi` | P | is every request answered and every context freed? | 2 clients, one script |
| `timeouts` | P | does `poll()` return in time? | 2 clients (one without a timeout), 2 scripts (one with timeout 0), 6 ms, a busy loop |
| `handlers` | P | are files, names and lists consistent, and is what a download or a GET hands out what was uploaded? | 2 sessions, 2 keys, 2 names with one hash, 7 locations, the store below the root as in `config/colin.conf`, every call failing, restarts, at most 2 files listed in all |
| `requests` | P | do splits show, and where does a request end? | messages of every kind (answered, refused by each check, sized, chunked, with trailers, malformed), heads that framing and parser read differently, up to 3 on a connection, in every split |
| `startup` | P | what does an accepted file promise, and who serves a connection? | about 250 files: each directive well and ill written, locations in every order, pairs of server blocks; 2 peers |
| `late_timeout` | V | one answer per request (README:14) | 1 client, a script that does not read its input |
| `client_gone` | V | the server survives a client that leaves (README:68) | 2 clients, one script |
| `unread_request` | V | every request is answered (README:14) | 1 client that pipelines two requests |
| `listener_timeout` | V | a client has the timeout of its server (`Timeout.cpp:33`) | the files of `startup` |

**Bounds.** `Plan` bounds what peers send, `LastFd` the descriptors, `Pid` the
processes, `PipeSize` and `MaxOut` the pipes, `LastTime` the clock, and `Modulus` and
`IntMax` stand for 2^64 and `INT_MAX`. Two clients are enough for every table look-up
to find the wrong one; three requests for an answer to meet the one before and
the one after it; a modulus a few
times the clock's range for differences to wrap. In `handlers`, two sessions with one
key are the least for a deletion to reach another's file, and `MaxList = 2` for a key to be
listed twice, by one session or by both. In `requests`, the third message is there for an error in the place of the
second to show; bodies contain line ends, digits and the empty line of a last chunk.
In `startup`, pairs and one triple of blocks cover equal, different and conflicting
addresses in and against the order of the bind keys (`KeyOrder` lists every address
a file can write, in the order of the text of the keys), and one file has an argument
that is the word `server`, which must not be taken for a block. The proofs do away with the
bounds for the properties they cover. Deadlock is checked except where the
process may die or the file may be refused, which is the end of everything; in
`requests` a connection also ends when its client has sent all.

**Fairness** (`FairSpec`): weak fairness of `Serve`, all steps of the loop together,
because the loop never stops; and of each deadline, because clocks do not. None
of peers or scripts: a peer may stop sending and a script may hang, and what is
promised then rests on deadlines. The order of descriptors within a list is open
and no fairness among descriptors is assumed: every pass empties its lists.

**What the runs show.** Without CGI tables agree, answers are
whole and in order, and peers that wait for one answer before they ask again are
all served, as long as no peer ends the process as said below. With CGI the tables still agree, in every run, whatever clients,
scripts and the kernel do, and what a pass serves is what was polled. What does
not hold is the following. What has a run is named by it; the rest shows when constants are
changed as said:

- `StaysUp`: the process ends when a client leaves before its script (`client_gone`,
  `ServerLoop.cpp:222`), when a script closes its input while its body is written to it
  (`late_timeout.cfg` with `MayDeafen`, `ServerLoop.cpp:229`), when a peer half-closes, which the
  loop answers with POLLOUT, and resets before the answer is sent (any peer in both
  `MayShut` and `MayReset`, with scripts or without; `ServerHelpers.cpp:178`), and when `fork()` fails,
  as only `main()` catches that exception (`CGI.cpp:41`). `NothingElseEndsIt` says that these
  are all there are in the loop; parser and handlers have their own (`QueueChunked` and `Dies`, below). It is checked in run `cgi`, where all four can happen, and it is a theorem.
- `RequestsAnswered`: nobody answers a second request that arrived with the first
  (`unread_request`), nor one whose `pipe()` failed (`live_cgi.cfg` with `LastFd = 4`;
  `CGI.cpp:25`), which with a client timeout ends with the connection closed.
- `AnswersInOrder`: a script that leaves its input unread has its client answered twice
  (`late_timeout`), and so has a peer that pipelines behind a request for a script, as
  the handler runs again on the same request (a plan of `Cgi` and `Get` with `Pipelines`;
  `ServerHelpers.cpp:155`).
- `IsolatedBody` excepts scripts whose client has left. When another client takes the
  number, its body is fed to that script (`ServerLoop.cpp:221`).

Three behaviours of the loop follow from the model without a run of their own. A
finished context stays in `CGIMap_` when the descriptor number of its other side has
been given to a younger context (`ServerLoop.cpp:268` asks only whether the number is in
`CGIbyWrite_`). `SweepExpiredClients` does nothing without clients (`ServerLoop.cpp:20`), so a
script whose client was the last to leave outlives its deadline. A deadline that
passes in a busy pass makes the unsigned difference wrap (`Timeout.cpp:88`), and `Delta`
is then `IntMax`, not 0: `Punctual` is about a loop that is not busy.

`requests`: the decoder does not depend on how the stream is split, and takes out
of it exactly what the client put in. Four exceptions are written into the
properties, each of them a behaviour of the code. After trailers `parsePos` is left in front of
them (`ServerHelpers.cpp:409`) and they are read as the next request (`StartsAtItsHead`). A GET or
DELETE is refused with 400 if bytes of the next request have arrived with it
(`HttpRequestParser.cpp:14`; `AnsweredAsAlone`). A POST whose body is a single CR is taken for
an empty line and refused when that CR ends the buffer (`HttpUtils.cpp:126`), and
accepted when bytes of the next request are behind it (`AnsweredAsAlone`). And a chunked request to a location without a
handler leaves no `Connection` header for `.at()` (`ServerHelpers.cpp:104`): the process ends
(`QueueChunked`). A request with a header `Transfer-Encoding: chunked`, so spelled, is
decoded and then refused with 501 (`HttpRequestParser.cpp:49`); spelled in lower case it
is decoded and taken.

`handlers`: the three stores stay consistent whatever fails, with one exception,
which `ListedIsStored` states as `spoiled`: a name is entered before its file is written
(`HttpHandlerPOST.cpp:150`), so after a failed upload another session with that key may be shown a
file that is not there. A write that is cut short is answered 201 all the same
(`FileHandler.cpp:78`; `torn`), a deletion that fails 204 (`FileHandler.cpp:95`). The process ends on
`GET /api/download` (`HttpHandlerGET.cpp:233`) and on a POST no location matches (`Router.cpp:52`): `Dies`. `/api/download`
and `/uploads` are two ways to a file, and only the first asks for its owner: in
`config/colin.conf` the store is `/uploads` below the root, with GET allowed (`Location.cpp:98`), so a
plain GET hands any upload to anyone (`HttpHandlerGET.cpp:157`). `DownloadsAreUploads` therefore
speaks of the receiver for downloads only, and of the content for both: it is that of the
last upload of the key, except after a torn write, and except that a plain GET also finds
files that an earlier process left (`leftover`), whose uploads it knows nothing of.

`startup`: a limit that became negative by its unit is refused by the comparison with
`body_ram_threshold`, in whichever order the two come (`LimitsInRange`); one that
came back into range is accepted, and `ValuesAsWritten` speaks of values an int holds. A
missing `;` before the `}` of a block lets the cursor run past its end, into the
next block or past the last token (`"undefined"`), but no such file is accepted. A
listener gets the timeout of the block with its own number (`Timeout.cpp:29`), and
listeners are numbered in the order of their bind keys, one for each address: a connection has the
timeout of the block that serves it if the blocks of the file have addresses of their own and
are in that order (`TimeoutOfItsServer`), and otherwise may have that of a block at
another address (`listener_timeout`). `host:` is searched for as text in the whole
header block (`VhostHelpers.cpp:28`, `ServerHelpers.cpp:85`), so that a target such as
`/?u=http://localhost:8081/`, the value of a `Referer` or another header whose name ends in it is taken for the
`Host` header if it comes first. `ServedByItsHost` excepts these (`Masked`) and says that nothing else
misleads the choice; the run has requests of each kind.

## Proofs

All are checked by TLAPS, for any value of the constants that satisfies the named
assumptions of the modules (finite or not: any set of connections, pids and any
number of descriptors). Every safety invariant of the passing runs is stated by a
theorem, some under hypotheses that are named here and in the statement. The
argument is the same throughout: an inductive invariant, one lemma per action (or per
kind of step, where many actions do the same thing to what the invariant is
about), and a last temporal step.

- `PollHelpers_proofs`: `TypeCorrect`, `IndexStaysCoherent` and `Refinement`. Typing and
  coherence are inductive together: that the index of the moved entry is right
  after `delPollFd` needs both directions of coherence before it.
- `ServerLoop_proofs`: `TypeCorrect`, `TablesAlwaysAgree`, `ReadyListsStayValid`,
  `ReadyListsStaySteady`. The inductive invariant is
  `Inv == TablesTyped /\ TablesAgree /\ NothingStale /\ ListsApart /\ ScriptsStarted`.
  `TablesAgree` alone is not inductive: a reader that is served is looked up in
  the tables, so `NothingStale` is needed; `NothingStale` is kept because the action
  that closes a descriptor takes it from the lists in the same step
  (`ListsApart`: a descriptor in the list of errors is in no other) and closes no
  other one that waits; and a pid that is started must be in no table yet (`ScriptsStarted`).
  Each action is shown to be `Safe`: it serves what it takes from the lists
  (`Served`), leaves what waits as it is (`Steady`), and keeps the tables in
  agreement.
- `ServerLoopContent_proofs` adds the bytes. Every action of the server, the peers and
  the scripts is shown once to do one of a few things to a connection (`ConnStep`)
  and to a script (`ScriptStep`); what is claimed of a single one is then kept by looking
  at these few. `ContentInv`, inductive beside `Inv`, says that each connection's
  buffer is the stretch of its own stream from what was answered to what was
  received, and that what a script wrote is in its pipe or in its context's buffer.
  From it:
  - `ContentCorrect` (`TypeOK`, with the bound of the pipes and that nothing a script
    wrote is lost or taken twice) and `ScriptAnswersAreWhole`, without hypotheses. The second rests on
    `ReadersHaveOutput`: a script's pipe is served only when it has output or has ended, so
    that reading nothing does mean the end.
  - `BodiesStayIsolated`, for each script by itself: as long as its client has not left
    before it (`ClientLeft`), whoever else has. The exception is real: the client's
    number may then be another's (see "What the runs show").
  - `OnlyTheseEndIt`: what ends the process, without hypotheses (`NothingElseEndsIt`). Two
    theorems follow from it. `StaticServerEnds` supposes of the plan that nobody asks for a script, and of
    peers nothing: the process then ends only by a peer that half-closed and reset a
    connection that is still open (`ServerHelpers.cpp:178`). `OnlyOrphansEndIt` leaves out three
    of the four causes (`~ForkMayFail`, `~MayDeafen`, `MayShut \cap MayReset = {}`),
    and what is left is a client that leaves before its script.
  - `ScriptlessAnswersInOrder` for every connection that asks for no script, whatever
    the others do, and `StaticAnswersInOrder` for a server without any. The invariant
    (`Orderly`) ties what was sent, what waits in `outBuff` and what is in `inBuff` to the
    one request they belong to.
- `Timeouts_proofs`: `TimeoutsTyped`, `PollAlwaysReturns`, `OnlySilentClose` from the
  invariant that ties each deadline to when its client was last heard
  (`Deadlines`), and `NothingOverstays` with `OnTime`, which says of the sleep that it
  ends before the first deadline. The arithmetic of the wrapped difference is in
  `DeltaFits`.
- `Requests_proofs`: the decoder. `Inv` says that what is in `inBuff` is the stream from
  where the last request ended to where `recv()` has come (`Buffered`), and that a
  request that waits is where the decoder would be had it seen the whole buffer at once
  (`Resumable`). That more bytes keep `Resumable` is shown at each stage of `unchunkStep_`:
  what it decided on a shorter buffer it decides on a longer one (`Stays`). The
  recursive function `unchunkStep` is shown to be defined layer by layer, by the number of
  steps that are left (`Distance`). `RequestsTyped` and `SplitsNeverMatter` have no
  hypotheses. The other four speak of the messages in a stream: `BodiesAreDecoded` and
  `EachStartsAtItsHead` suppose that each is decoded right by itself and in one piece
  (`EachAlone`), and show that then no neighbour and no split changes that;
  `AnsweredLikeAlone` also supposes that the length the parser reads is no more than that of
  the body (`EachDeclared`), and shows that the first check of `parseRawRequest` that
  fails is the same with and without the bytes behind, but for the two that look at
  these; `PlainNeverMixed` proves `EachAlone` for requests with a `Content-Length` or
  without a body. The invariant behind them (`Kept`) follows each message from recorded to
  placed in the buffer to answered. TLC checks both hypotheses
  for run `requests`: `EachDeclared` as `MessagesAssumption`, `EachAlone` by `BodiesDecoded` and
  `StartsAtItsHead` themselves, as every message comes first in some stream and in some split
  arrives in one piece before the next one.
- `Handlers_proofs`: `StoredAreOwned`, `ListedAreStored`, `DownloadsWereUploaded`, for
  any configuration whose `upload_store`s name one directory (`Lists \subseteq {dir}`), and
  `RefusedLeavesStores` for every configuration. The first three share `Inv`. None of
  them is inductive alone: that what is handed out is the last upload needs that
  files and `latest` agree (`Contents`), that whoever lists a key uploaded it and, as a
  plain GET asks for no list, that a file stored since the start is in one (`StoredIsLatest`)
  (`ListedWasUploaded`); that what is listed is stored follows from the stronger
  statement about names (`NamedIsStored`), because a deletion takes the name from all
  sessions but the key from one list only; and that deleting one key leaves the
  others' files needs `InStore`, which is where the one directory comes in.
  `UploadStep`, `FailedUpload`, `DeleteStep`, `DownloadKeeps` and `AddingStep` are the
  five ways a request touches the stores. What
  they take from the parser is that an upload has a name and a content
  (`RequestAssumption`). `HandlersTyped` is the type invariant, without hypotheses on the
  configuration. `LinksLeadToFiles` needs `UploadsListed`, that a key that was uploaded and not deleted is
  in its session's list, and, of the configuration, that a DELETE of such a link reaches the handler (`LinksRouted`; TLC checks it and the one directory for
  run `handlers`, `ConfigurationAssumption`).
- `Listeners_proofs`: configuration and listeners, for any file. `ParseInv` is about the
  parser: the cursor stays at the tokens, limits that are set are in range, paths are listed once and
  longer ones first. It gives `ParserCorrect`, `AcceptedLimitsInRange` and
  `AcceptedNoneShadowed`. `NothingIsSkipped` and `AcceptedAsWritten` need `ReadInv`, which says
  which tokens have been handled and what they gave. It is not simply that all in
  front of the cursor have been: a missing `;` lets the cursor run past the end
  of its block, which the code tests by `==` only. So the proof distinguishes how
  far a step takes the cursor, and shows that one that has run past its block never
  comes back to that end, so that no such file is accepted. `NetInv` is about what
  follows: groups have the blocks of their address in the order of the file, listeners are the
  groups in the order of the keys, connections have what they got from theirs. It gives
  `ListenersCorrect`, `ListenersTypeOK`, `EachBlockListens`, `ServersByHost` and
  `TimeoutsInKeyOrder`. The last needs that groups, listeners and blocks are the same
  sequence in a file in the order of its keys: the first place where they are not would be out of order on one side.

What is assumed of the constants, beyond their kinds, and why the code justifies it:
`IntAssumption` (`Config`): `strtol` gives numbers of the range of int, an int holds a port,
and no text is both a plain number and one with a unit. `FileAssumption` and
`PathAssumption`: a path is determined by its text and the other way round. `KeyAssumption`
(`Listeners`): every address has one bind key (`Sockets.cpp` makes it of IP and port).
`HostAssumption`: the search for `host:` finds a header of that name. `RequestAssumption` (`Handlers`): a cookie
names a session or none. `HeadAssumption` and `WireAssumption` (`Requests`): a head
is not one of the line end's characters, framing takes it for chunked or not, the lengths in
it are numbers, and clients send sequences of messages. TLC evaluates all of them in the runs.

Model-checked only:

- all liveness (`PatientAnswered`, `AbortedIsClosed`, `SilentIsClosed`, `RequestsAnswered`,
  `ContextsEnd`), which TLAPS does not do;
- `EachAlone` for chunked messages: that a given message decodes to the data it was made from is what a
  recursive definition computes for each, and `requests` enumerates them. (Where a
  proof needs induction, it is over a set of numbers, `Induction` of
  `CommonLemmas`; the library's induction over a predicate cannot be applied by the
  installed provers);
- `AnswersInOrder` of connections that ask for scripts: it fails (`late_timeout`, "What the
  runs show"), so there is no theorem to prove without excluding what makes it fail;
- the four violations.

## Plan

Every component of the table is modelled and checked, and every safety invariant
has its theorem. What is left, in this order:

1. `EachAlone` as a theorem for chunked messages that are built by an encoder, which is to be
   modelled first (chunk sizes, extensions and trailers).
2. `AnswersInOrder` with scripts, under the hypothesis that no deadline passes while a
   script runs and that nobody pipelines behind a request for a script.
3. A run with two scripts at once under faults, which is too large as it stands (more than
   3 million states): that one script may hold the number of another is covered by the
   theorems of `ServerLoop`, which are for any number of them.
4. The chunked branch of `readOnce_` in `ServerLoop`, as far as answers and closing
   depend on it.

## Not modelled

`poll()` failing, and read errors on a pipe; the text of responses, generated pages
and MIME types; the environment of scripts and the parsing of their output;
signals other than SIGPIPE; zombies and the reuse of pids; memory (`inBuff` has no
limit in the code and none in the model); more than one listener in `ServerLoop` (they
share no state); the query string, which is stored and only scripts see; the characters
of the configuration file (comments, line numbers in messages); what becomes of
a configuration that reads past its last token, which is undefined.
