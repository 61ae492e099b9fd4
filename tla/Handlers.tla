------------------------------- MODULE Handlers -------------------------------
(***************************************************************************)
(* What the server does with a request once it is parsed: HttpHandler, the *)
(* Router, the three method handlers, and the three stores they share over *)
(* all connections: Cookie::sessionMetadata and FileHandler's table of     *)
(* names, both in memory, and the files on disk, which a restart keeps.    *)
(* The loop is single-threaded, so a request is one step; a call to the    *)
(* file system may fail in it.                                             *)
(*                                                                         *)
(* A path, of a URL or of a file, is a sequence of runs of characters; a   *)
(* location matches a path it is a prefix of.  The name of a stored file   *)
(* is the djb2 hash of the uploaded name with its extension: HashOf, which *)
(* need not be injective.  Locations that run scripts are ServerLoop's.    *)
(***************************************************************************)
EXTENDS Integers, Sequences, FiniteSets, SequencesExt

CONSTANTS
  Session, NoCookie,
  Name, NoName,
  Key,          \* names of stored files
  Text,         \* characters of their contents
  HashOf,       \* [Name -> Key]
  Cut,          \* [Name -> Name]: the name without its last character
  Locations,    \* the location blocks, in the order the router tries them
  Server,       \* the server block: root, index, autoindex, error_pages
  Dirs, Specials, Unreadable,   \* paths of the file system
  Site,         \* [path -> content]: the files nobody uploads or deletes
  Request,      \* the requests clients send
  Faults,       \* calls that may fail: subset of stat, open, write, remove
  MaxList       \* files all sessions list at most

ASSUME SessionAssumption == NoCookie \notin Session
ASSUME NameAssumption == NoName \notin Name
ASSUME HashAssumption == HashOf \in [Name -> Key] /\ Cut \in [Name -> Name]
ASSUME RequestAssumption ==
  \A r \in Request :
    /\ r.cookie \in Session \cup {NoCookie}
    /\ r.type = "multipart" => r.part.name \in Name /\ r.part.content \in Seq(Text)
ASSUME LocationAssumption == \A i \in DOMAIN Locations : i \in Nat /\ ~Locations[i].cgi
ASSUME FaultAssumption ==
  /\ Faults \subseteq {"stat", "open", "write", "remove"} /\ MaxList \in Nat

VARIABLES
  up,           \* the process is alive
  sessions,     \* Cookie::sessionMetadata: session -> [Key -> times it lists it]
  names,        \* FileHandler::_hashedFileNames: key -> original file name
  disk,         \* path -> content, of the files in the upload stores
  reply,        \* the last response, and who got which stored file with it
  (* history *)
  issued,       \* ids createSessionID has ever returned
  leftover,     \* files that were there when the process started
  uploads,      \* uploads confirmed since then, until their owner deletes them
  latest,       \* key -> content of the last confirmed upload
  spoiled,      \* keys whose last upload failed after it was entered in names
  torn          \* keys whose last upload was confirmed but not wholly written

memory  == <<sessions, names>>
history == <<issued, leftover, uploads, latest, spoiled, torn>>
vars    == <<up, memory, disk, reply, history>>

Nothing == << >>
NoReply == [status |-> 0, connection |-> "", closes |-> FALSE, body |-> Nothing, file |-> {}]

Init ==
  /\ up = TRUE
  /\ sessions = Nothing /\ names = Nothing
  /\ disk = Nothing
  /\ reply = NoReply
  /\ issued = {} /\ leftover = {} /\ uploads = {}
  /\ latest = Nothing /\ spoiled = {} /\ torn = {}

-----------------------------------------------------------------------------
(* Routing: the first location whose path is a prefix, 0 if there is none. *)

Urls  == {r.path : r \in Request}
Links(path) == {path \o <<"/", k>> : k \in Key}
Paths == Urls \cup UNION {Links(path) : path \in Urls}
Matching(path) == {i \in DOMAIN Locations : IsPrefix(Locations[i].path, path)}
Route == [path \in Paths |-> IF Matching(path) = {} THEN 0 ELSE Min(Matching(path))]
Located(r)     == Route[r.path] # 0
Location(r)    == Locations[Route[r.path]]
(* The directory with the slash getUploadPath ends it in.                  *)
Store(r)       == Location(r).upload_store

Redirected(r) == Located(r) /\ Location(r).redirect # 0

Allowed(r) ==
  Located(r) => (Location(r).allowedMethods = {} \/ r.method \in Location(r).allowedMethods)

(* router.resolvedPath, of a GET.  The slash after the path of an alias is *)
(* dropped, the alias need not end in one.                                 *)
Remaining(r) ==
  LET rest == SubSeq(r.path, Len(Location(r).path) + 1, Len(r.path))
  IN IF rest # Nothing /\ Head(rest) = "/" THEN Tail(rest) ELSE rest
Resolved(r) ==
  IF Located(r) /\ Location(r).root # Nothing THEN Location(r).root \o r.path
  ELSE IF Located(r) /\ Location(r).alias # Nothing THEN Location(r).alias \o Remaining(r)
  ELSE Server.root \o r.path

Routed(r) == ~Redirected(r) /\ Allowed(r)
ListUrl       == <<"/api", "/uploads">>
DownloadUrl   == <<"/api", "/download">>
UploadUrl     == <<"/uploads">>
IsList(r)     == Routed(r) /\ r.method = "GET" /\ r.path = ListUrl
IsDownload(r) == Routed(r) /\ r.method = "GET" /\ IsPrefix(DownloadUrl, r.path)
IsGet(r)      == Routed(r) /\ r.method = "GET" /\ ~IsList(r) /\ ~IsDownload(r)
Stores(r)     == Located(r) /\ Store(r) # Nothing
IsPost(r)     == Routed(r) /\ r.method = "POST" /\ Stores(r)
(* getResolvedPath asks the location of a POST for its scripts, found or not. *)
IsPostNowhere(r) == Routed(r) /\ r.method = "POST" /\ ~Located(r)
IsDelete(r)   == Routed(r) /\ r.method = "DELETE" /\ Stores(r)
IsUnhandled(r) ==
  Routed(r) /\ ~Stores(r) /\ (r.method = "DELETE" \/ (r.method = "POST" /\ Located(r)))

-----------------------------------------------------------------------------
(* Responses.  readOnce_ overwrites the Connection header whatever handler *)
(* wrote it; closeFlag is set by readOnce_, and by handleRequest when it   *)
(* has caught an exception and the request asked to close.                 *)

Fatal(status) == status = 400 \/ status \div 100 = 5

Respond(r, status, body, file, thrown) ==
  /\ up' = TRUE
  /\ reply' = [status |-> status,
               connection |-> IF Fatal(status) THEN "close" ELSE "keep-alive",
               closes |-> Fatal(status) \/ (thrown /\ r.close),
               body |-> body, file |-> file]

IsFile(path) == path \in DOMAIN disk \/ path \in DOMAIN Site
Content(path) == IF path \in DOMAIN disk THEN disk[path] ELSE Site[path]

GeneratedPage == <<"generated">>

(* The error page of the location, else of the server, else a generated one. *)
ErrorPage(r, code) ==
  LET pages == IF Located(r) /\ code \in DOMAIN Location(r).error_pages
               THEN Location(r).error_pages ELSE Server.error_pages
      path  == Server.root \o pages[code]
  IN IF code \in DOMAIN pages /\ IsFile(path) /\ path \notin Unreadable
     THEN Content(path) ELSE GeneratedPage

Throw(r, code) == Respond(r, code, ErrorPage(r, code), {}, TRUE)
Ok(r, status, body) == Respond(r, status, body, {}, FALSE)

(* An exception that is no HttpException, or a null location dereferenced. *)
Dies == up' = FALSE /\ UNCHANGED <<memory, disk, reply, history>>

(* The codes statusCodeToString knows; it makes 503 of every other. *)
KnownCodes == {200, 201, 204, 301, 400, 401, 404, 405, 413, 414, 500, 501, 502, 504, 505}

HandleRedirection(r) ==
  /\ Ok(r, IF Location(r).redirect \in KnownCodes THEN Location(r).redirect ELSE 503, Nothing)
  /\ UNCHANGED <<memory, disk, history>>

CheckAllowedMethods(r) ==
  /\ Throw(r, 405)
  /\ UNCHANGED <<memory, disk, history>>

(* No branch of handleRequest fills in a response. *)
NoHandler(r) ==
  /\ Ok(r, 0, Nothing)
  /\ UNCHANGED <<memory, disk, history>>

-----------------------------------------------------------------------------
(* Sessions *)

With(f, x, y) == [z \in DOMAIN f \cup {x} |-> IF z = x THEN y ELSE f[z]]
Without(f, x) == [z \in DOMAIN f \ {x} |-> f[z]]

ValidSession(s) == s # NoCookie /\ s \in DOMAIN sessions

(* The vector of a session, without its order.  sessionMetadata[s] adds    *)
(* the session it does not find.                                           *)
NoFiles == [k \in Key |-> 0]
FilesOf(s) == IF s \in DOMAIN sessions THEN sessions[s] ELSE NoFiles
OwnsAnything(s, k) == s \in DOMAIN sessions   \* mutant: any session will do
Owns(s, k) == k \in Key /\ FilesOf(s)[k] > 0
KeysOf(s)  == {k \in Key : Owns(s, k)}

(* _hashedFileNames[k] adds an entry without a name. *)
Touched(ks) == [k \in ks \cup DOMAIN names |-> IF k \in DOMAIN names THEN names[k] ELSE NoName]

-----------------------------------------------------------------------------
(* GET of a file or a directory.  A request without a cookie is given a    *)
(* session first, whatever becomes of it.                                  *)

SetSecureCookie(r) ==
  IF r.cookie # NoCookie THEN UNCHANGED <<sessions, issued>>
  ELSE \E s \in Session \ issued :
         sessions' = With(sessions, s, FilesOf(s)) /\ issued' = issued \cup {s}

IndexOf(r) ==
  IF Located(r) /\ Location(r).index # Nothing THEN Location(r).index ELSE Server.index

Slashed(path) == IF Last(path) = "/" THEN path ELSE Append(path, "/")

(* The stored file an answer hands out, if it does, and how it came to.    *)
HandedOut(r, path, how) ==
  {[to |-> r.cookie, at |-> p, how |-> how, data |-> disk[p]] : p \in {path} \cap DOMAIN disk}

(* A GET asks for no owner: below the root it gives anyone an upload.      *)
Serve(r, path) ==
  IF path \in Unreadable THEN Throw(r, 403)
  ELSE Respond(r, 200, Content(path), HandedOut(r, path, "get"), FALSE)

AutoindexPage == <<"listing">>
HandleAutoindex(r) == Ok(r, 200, AutoindexPage)

HandleGet(r) ==
  /\ SetSecureCookie(r)
  /\ LET path  == Resolved(r)
         index == Slashed(path) \o IndexOf(r)
     IN \/ path \notin Dirs \cup Specials /\ ~IsFile(path) /\ Throw(r, 404)
        \/ path \in Specials /\ Throw(r, 403)
        \/ IsFile(path) /\ Serve(r, path)
        \/ /\ path \in Dirs
           /\ IF IsFile(index) THEN Serve(r, index)
              ELSE IF Server.autoindex \/ (Located(r) /\ Location(r).autoindex)
                   THEN HandleAutoindex(r) ELSE Throw(r, 403)
  /\ UNCHANGED <<names, disk, leftover, uploads, latest, spoiled, torn>>

(* GET /api/uploads: the named ones of the session's files, as JSON.  The  *)
(* session is not validated: one the server does not know is added.        *)
Shown(s)   == {k \in KeysOf(s) : k \in DOMAIN names /\ names[k] # NoName}
Listing(s) == [k \in Shown(s) |-> FilesOf(s)[k]]

HandleList(r) ==
  /\ IF r.cookie = NoCookie
     THEN Throw(r, 401) /\ UNCHANGED memory
     ELSE /\ Ok(r, 200, Listing(r.cookie))
          /\ sessions' = With(sessions, r.cookie, FilesOf(r.cookie))
          /\ names' = Touched(KeysOf(r.cookie))
  /\ UNCHANGED <<disk, history>>

(* What follows "/api/download/"; substr throws when the path is shorter.  *)
DownloadKey(r) == SubSeq(r.path, Len(DownloadUrl) + 2, Len(r.path))
AsKey(rest) == IF Len(rest) = 1 THEN rest[1] ELSE rest

Download(r, k) ==
  IF Store(r) = Nothing THEN Throw(r, 500)
  ELSE \/ /\ "stat" \in Faults
          /\ Throw(r, 500)
       \/ /\ "open" \in Faults
          /\ Throw(r, 404)
       \/ IF Append(Store(r), k) \in DOMAIN disk
          THEN Respond(r, 200, Nothing, HandedOut(r, Append(Store(r), k), "download"), FALSE)
          ELSE Throw(r, 404)

HandleDownload(r) ==
  /\ LET k == AsKey(DownloadKey(r))
     IN IF r.path = DownloadUrl THEN Dies
        ELSE /\ UNCHANGED <<sessions, disk, history>>
             /\ IF ~ValidSession(r.cookie) THEN Throw(r, 401) /\ UNCHANGED names
                ELSE IF ~Owns(r.cookie, k) THEN Throw(r, 404) /\ UNCHANGED names
                ELSE IF ~Located(r) THEN up' = FALSE /\ UNCHANGED <<names, reply>>
                ELSE names' = Touched({k}) /\ Download(r, k)

-----------------------------------------------------------------------------
(* POST: one file in a multipart body.  Its content runs from the first    *)
(* empty line to the closing boundary, the CRLF before that included, and  *)
(* is empty if there is none.  The name is cut two characters short of the *)
(* end of its header line, one too many where no CR is left at that end.   *)

FileName(part) == IF part.lastHeader THEN Cut[part.name] ELSE part.name

FileContent(part) == IF part.closed THEN Append(part.content, "crlf") ELSE Nothing

(* Mutant: the list of the session is replaced instead of extended. *)
ConfirmReplaces(r, k, content, written) ==
  /\ disk' = With(disk, Append(Store(r), k), written)
  /\ sessions' = [sessions EXCEPT ![r.cookie] = [NoFiles EXCEPT ![k] = 1]]
  /\ leftover' = leftover \ {Append(Store(r), k)}
  /\ Ok(r, 201, Append(Append(r.path, "/"), k))
  /\ uploads' = uploads \cup {[by |-> r.cookie, key |-> k, at |-> r.path]}
  /\ latest' = With(latest, k, content)
  /\ UNCHANGED <<spoiled, torn>>

Confirm(r, k, content, written) ==
  /\ disk' = With(disk, Append(Store(r), k), written)
  /\ sessions' = [sessions EXCEPT ![r.cookie][k] = @ + 1]
  /\ leftover' = leftover \ {Append(Store(r), k)}
  /\ Ok(r, 201, Append(Append(r.path, "/"), k))
  /\ uploads' = uploads \cup {[by |-> r.cookie, key |-> k, at |-> r.path]}
  /\ latest' = With(latest, k, content)
  /\ spoiled' = spoiled \ {k}
  /\ torn' = IF written = content THEN torn \ {k} ELSE torn \cup {k}

(* Mutant: the file is entered in the list before it is opened. *)
UploadListsFirst(r, k, name, content) ==
  /\ names' = With(names, k, name)
  /\ sessions' = [sessions EXCEPT ![r.cookie][k] = @ + 1]
  /\ Throw(r, 500)
  /\ UNCHANGED <<disk, history>>

UploadHashedFile(r, k, name, content) ==
  /\ names' = With(names, k, name)
  /\ UNCHANGED issued
  /\ \/ /\ Faults \cap {"stat", "open"} # {}
        /\ Throw(r, 500)
        /\ spoiled' = spoiled \cup {k}
        /\ UNCHANGED <<sessions, disk, leftover, uploads, latest, torn>>
     \/ Confirm(r, k, content, content)
     \/ /\ "write" \in Faults /\ content # Nothing
        /\ \E n \in 0 .. Len(content) - 1 :
             Confirm(r, k, content, SubSeq(content, 1, n))

PostError(r) ==
  IF r.type = "none" THEN 400
  ELSE IF r.type # "multipart" THEN 415
  ELSE IF ~ValidSession(r.cookie) THEN 401
  ELSE IF ~r.part.named THEN 400
  ELSE 0

Listed == {x \in Session \X Key \X (1 .. MaxList) : x[3] <= FilesOf(x[1])[x[2]]}

HandlePost(r) ==
  /\ IF PostError(r) # 0
     THEN Throw(r, PostError(r)) /\ UNCHANGED <<memory, disk, history>>
     ELSE /\ Cardinality(Listed) < MaxList   \* bound
          /\ LET name == FileName(r.part)
             IN UploadHashedFile(r, HashOf[name], name, FileContent(r.part))

-----------------------------------------------------------------------------
(* DELETE: the path must begin with "/uploads/", the rest is the key.      *)

DeletePrefix == <<"/uploads", "/">>
DeleteKey(r) == AsKey(SubSeq(r.path, Len(DeletePrefix) + 1, Len(r.path)))

DeleteError(r) ==
  IF ~IsPrefix(DeletePrefix, r.path) THEN 404
  ELSE IF r.path = DeletePrefix THEN 400
  ELSE IF ~ValidSession(r.cookie) THEN 401
  ELSE IF ~Owns(r.cookie, DeleteKey(r)) THEN 404
  ELSE 0

(* removeHashedFileFromSession takes every copy out of the list. *)
Unlisted(s, k) == [sessions[s] EXCEPT ![k] = 0]

(* Mutant: the name of the file is forgotten, the file is left. *)
RemovedInMemory(r, k) ==
  /\ names' = Without(names, k)
  /\ sessions' = [sessions EXCEPT ![r.cookie] = Unlisted(r.cookie, k)]
  /\ uploads' = {u \in uploads : ~(u.by = r.cookie /\ u.key = k)}
  /\ UNCHANGED <<disk, issued, leftover, latest, spoiled, torn>>

(* Mutant: the file is removed, its name is left. *)
RemovedOnDisk(r, k) ==
  /\ disk' = Without(disk, Append(Store(r), k))
  /\ sessions' = [sessions EXCEPT ![r.cookie] = Unlisted(r.cookie, k)]
  /\ leftover' = leftover \ {Append(Store(r), k)}
  /\ UNCHANGED <<names, issued, uploads, latest, spoiled, torn>>

(* A std::remove that fails undoes nothing, and is answered 204 all the same. *)
Removed(r, k) ==
  /\ disk' = Without(disk, Append(Store(r), k))
  /\ names' = Without(names, k)
  /\ sessions' = [sessions EXCEPT ![r.cookie] = Unlisted(r.cookie, k)]
  /\ leftover' = leftover \ {Append(Store(r), k)}
  /\ uploads' = {u \in uploads : ~(u.by = r.cookie /\ u.key = k)}
  /\ UNCHANGED <<issued, latest, spoiled, torn>>

DeleteFile(r, k) ==
  \/ "stat" \in Faults /\ Throw(r, 500) /\ UNCHANGED <<memory, disk, history>>
  \/ /\ Append(Store(r), k) \notin DOMAIN disk
     /\ Throw(r, 404)
     /\ UNCHANGED <<memory, disk, history>>
  \/ /\ Append(Store(r), k) \in DOMAIN disk
     /\ Ok(r, 204, Nothing)
     /\ \/ Removed(r, k)
        \/ "remove" \in Faults /\ UNCHANGED <<memory, disk, history>>

HandleDelete(r) ==
  /\ IF DeleteError(r) # 0
     THEN Throw(r, DeleteError(r)) /\ UNCHANGED <<memory, disk, history>>
     ELSE DeleteFile(r, DeleteKey(r))

-----------------------------------------------------------------------------
(* The process ends and is started again: memory is empty, files stay.     *)
Restart ==
  /\ up' = TRUE
  /\ sessions' = Nothing /\ names' = Nothing
  /\ reply' = NoReply
  /\ leftover' = DOMAIN disk
  /\ uploads' = {} /\ latest' = Nothing /\ spoiled' = {} /\ torn' = {}
  /\ UNCHANGED <<disk, issued>>

(* handleRequest: the handler each request is given to. *)
Redirections == {r \in Request : Redirected(r)}
Forbidden    == {r \in Request : ~Redirected(r) /\ ~Allowed(r)}
Gets         == {r \in Request : IsGet(r)}
ListGets     == {r \in Request : IsList(r)}
Downloads    == {r \in Request : IsDownload(r)}
Posts        == {r \in Request : IsPost(r)}
Deletes      == {r \in Request : IsDelete(r)}
Unhandled    == {r \in Request : IsUnhandled(r)}
PostsNowhere == {r \in Request : IsPostNowhere(r)}

HandleRequest ==
  /\ up
  /\ \/ \E r \in Redirections : HandleRedirection(r)
     \/ \E r \in Forbidden : CheckAllowedMethods(r)
     \/ \E r \in Gets : HandleGet(r)
     \/ \E r \in ListGets : HandleList(r)
     \/ \E r \in Downloads : HandleDownload(r)
     \/ \E r \in Posts : HandlePost(r)
     \/ \E r \in Deletes : HandleDelete(r)
     \/ \E r \in Unhandled : NoHandler(r)
     \/ PostsNowhere # {} /\ Dies

Next == Restart \/ HandleRequest

Spec == Init /\ [][Next]_vars

-----------------------------------------------------------------------------
Lists == {Locations[i].upload_store : i \in DOMAIN Locations} \ {Nothing}
Stored(k) == \E d \in Lists : Append(d, k) \in DOMAIN disk

TypeOK ==
  /\ up \in BOOLEAN
  /\ DOMAIN sessions \subseteq Session /\ issued \subseteq Session
  /\ \A s \in DOMAIN sessions : sessions[s] \in [Key -> Nat]
  /\ DOMAIN names \subseteq Key
  /\ \A k \in DOMAIN names : names[k] \in Name \cup {NoName}
  /\ leftover \subseteq DOMAIN disk
  /\ uploads \subseteq [by : Session, key : Key, at : Urls]
  /\ DOMAIN latest \subseteq Key /\ spoiled \subseteq Key /\ torn \subseteq DOMAIN latest

(* A file that was not on disk when the process started has an owner: it   *)
(* is named in _hashedFileNames and in the list of a session, so somebody  *)
(* can fetch and delete it.  The three stores are written one after the    *)
(* other (uploadHashedFile, deleteFile) with failures in between, and      *)
(* several sessions may share a key.                                       *)
StoredHasOwner ==
  \A p \in DOMAIN disk \ leftover :
    /\ Last(p) \in DOMAIN names /\ names[Last(p)] # NoName
    /\ \E s \in DOMAIN sessions : Owns(s, Last(p))

(* A file a session is shown by GET /api/uploads is on disk, even after    *)
(* another session with the same key deleted it, unless an upload of that  *)
(* key has failed since: its name is entered before the file is written.   *)
ListedIsStored ==
  \A s \in DOMAIN sessions : \A k \in Shown(s) : Stored(k) \/ k \in spoiled

(* Who downloads a file has uploaded that key itself since the process     *)
(* started.  A plain GET of a path in the store asks for no owner, so it   *)
(* may hand any session's upload to anyone.  Either way the content is     *)
(* that of the last upload of the key, all of it unless the write was cut  *)
(* short: no refused upload, deletion by another session or restart in     *)
(* between shows through.  Files a GET finds left over by an earlier       *)
(* process, and files used as error pages, are not spoken of.              *)
DownloadsAreUploads ==
  \A f \in reply.file :
    LET k == Last(f.at)
    IN /\ f.how = "download" => \E u \in uploads : u.by = f.to /\ u.key = k
       /\ (f.how = "download" \/ f.at \notin leftover) =>
            /\ IsPrefix(f.data, latest[k])
            /\ k \notin torn => f.data = latest[k]

(* The Location a 201 names for POST /uploads leads a DELETE by the same   *)
(* session past every check as long as the file is on disk, whatever other *)
(* sessions did with the key (uploadFile, handleDeleteRequest).  A name    *)
(* whose path has an empty part, as after POST /uploads/, is not covered.  *)
LinkRequest(s, at, k) == [method |-> "DELETE", cookie |-> s, path |-> at \o <<"/", k>>]
LinksDelete ==
  \A u \in uploads :
    LET r == LinkRequest(u.by, u.at, u.key)
    IN (u.at = UploadUrl /\ Stored(u.key)) =>
         IsDelete(r) /\ DeleteError(r) = 0 /\ Append(Store(r), u.key) \in DOMAIN disk

(* What it needs of the configuration.                                     *)
LinksRouted == \A s \in Session, k \in Key : IsDelete(LinkRequest(s, UploadUrl, k))

(* A request that is answered with an error leaves every file and every    *)
(* session's list as they were.  The table of names may change: an upload  *)
(* that fails leaves its name there.                                       *)
RefusalsChangeNothing ==
  [][reply'.status >= 400 =>
       /\ disk' = disk
       /\ \A s \in Session : FilesOf(s)' = FilesOf(s)]_vars
=============================================================================
