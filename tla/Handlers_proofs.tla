--------------------------- MODULE Handlers_proofs ---------------------------
(***************************************************************************)
(* For any sessions, files, locations, requests and failures of the file   *)
(* system: a request that is refused changes neither a file nor the list   *)
(* of a session.  If all locations that store uploads name one directory,  *)
(* every stored file has an owner, what is listed is stored, what is       *)
(* downloaded was uploaded by its receiver, and what is handed out is what *)
(* the last upload of its key brought.                                     *)
(***************************************************************************)
EXTENDS Handlers, TLAPS, WellFoundedInduction

Same == disk' = disk /\ \A s \in Session : FilesOf(s)' = FilesOf(s)

(* Memory of sessions and disk unchanged: nothing the clients can lose.    *)
LEMMA SameStores == ASSUME UNCHANGED <<sessions, disk>> PROVE Same
BY DEF Same, FilesOf

(* A session that is given an empty list, or its own, has the files it had. *)
LEMMA ListsKept ==
  ASSUME NEW t, sessions' = With(sessions, t, FilesOf(t))
  PROVE  \A s \in Session : FilesOf(s)' = FilesOf(s)
<1>1. DOMAIN sessions' = {t} \cup DOMAIN sessions
  BY DEF With
<1>2. \A s \in DOMAIN sessions' : sessions'[s] = IF s = t THEN FilesOf(t) ELSE sessions[s]
  BY DEF With
<1> QED BY <1>1, <1>2 DEF FilesOf

(* An answer has the status it is given.                                   *)
LEMMA OkStatus ==
  ASSUME NEW r, NEW status, NEW body, Ok(r, status, body)
  PROVE  reply'.status = status
BY DEF Ok, Respond

(* An error thrown before anything was written changes nothing.            *)
LEMMA ThrowStores ==
  ASSUME UNCHANGED <<memory, disk, history>> PROVE Same
BY SameStores DEF memory

-----------------------------------------------------------------------------
(* What each handler does to the stores when it refuses.                   *)
LEMMA GetRefuses ==
  ASSUME NEW r \in Request, HandleGet(r) PROVE Same
<1>1. disk' = disk /\ SetSecureCookie(r) BY DEF HandleGet
<1>2. CASE UNCHANGED <<sessions, issued>> BY <1>1, <1>2, SameStores
<1>3. CASE \E s \in Session \ issued : sessions' = With(sessions, s, FilesOf(s))
  BY <1>1, <1>3, ListsKept DEF Same
<1> QED BY <1>1, <1>2, <1>3 DEF SetSecureCookie

(* A listing adds at most a session without files.                         *)
LEMMA ListRefuses ==
  ASSUME NEW r \in Request, HandleList(r) PROVE Same
<1>1. CASE UNCHANGED memory BY <1>1, SameStores DEF HandleList, memory
<1>2. CASE sessions' = With(sessions, r.cookie, FilesOf(r.cookie))
  BY <1>2, ListsKept DEF HandleList, Same
<1> QED BY <1>1, <1>2 DEF HandleList

(* A download writes no file and no list.                                  *)
LEMMA DownloadRefuses ==
  ASSUME NEW r \in Request, HandleDownload(r) PROVE Same
BY SameStores DEF HandleDownload, Dies, memory

(* An upload that is not confirmed reaches no list and no file.            *)
LEMMA PostRefuses ==
  ASSUME NEW r \in Request, HandlePost(r), reply'.status >= 400 PROVE Same
<1>1. CASE PostError(r) # 0 BY <1>1, ThrowStores DEF HandlePost
<1>2. CASE PostError(r) = 0
  <2> DEFINE name == FileName(r.part)
             content == FileContent(r.part)
             k == HashOf[name]
  <2>1. UploadHashedFile(r, k, name, content) BY <1>2 DEF HandlePost
  <2> HIDE DEF name, content, k
  <2>2. \A written : ~Confirm(r, k, content, written)
    BY OkStatus DEF Confirm
  <2> QED BY <2>1, <2>2, SameStores DEF UploadHashedFile
<1> QED BY <1>1, <1>2

(* A deletion that is refused removes nothing.                             *)
LEMMA DeleteRefuses ==
  ASSUME NEW r \in Request, HandleDelete(r), reply'.status >= 400 PROVE Same
<1>1. ~Ok(r, 204, Nothing) BY OkStatus
<1> QED BY <1>1, ThrowStores DEF HandleDelete, DeleteFile

(* A request answered with an error changes no file and no session's list: *)
(* only a confirmed upload and a deletion do, and they answer 201 and 204. *)
THEOREM RefusedLeavesStores == Spec => RefusalsChangeNothing
<1>1. ASSUME Next, reply'.status >= 400 PROVE Same
  <2>1. ~Restart
    <3>1. NoReply.status = 0 BY DEF NoReply
    <3>2. Restart => reply' = NoReply BY DEF Restart
    <3> QED BY <1>1, <3>1, <3>2
  <2>2. ASSUME NEW r \in Request, HandleRedirection(r) \/ CheckAllowedMethods(r) \/ NoHandler(r)
        PROVE  Same
    BY <2>2, ThrowStores DEF HandleRedirection, CheckAllowedMethods, NoHandler
  <2>3. ASSUME Dies PROVE Same
    BY <2>3, SameStores DEF Dies, memory
  <2>4. HandleRequest BY <1>1, <2>1 DEF Next
  <2> QED
    BY <1>1, <2>2, <2>3, <2>4, GetRefuses, ListRefuses, DownloadRefuses, PostRefuses,
       DeleteRefuses
    DEF HandleRequest, Redirections, Forbidden, Gets, ListGets, Downloads, Posts, Deletes,
        Unhandled
<1>2. ASSUME UNCHANGED vars PROVE Same
  BY <1>2, SameStores DEF vars, memory
<1>3. [Next]_vars => [reply'.status >= 400 => Same]_vars
  BY <1>1, <1>2
<1> QED BY <1>3, PTL DEF Spec, RefusalsChangeNothing, Same

------------------------------------------------------------------------------
(* A set of numbers that is not empty has a least one.                     *)
LEMMA Least ==
  ASSUME NEW S \in SUBSET Nat, S # {} PROVE Min(S) \in S
<1>1. \E x \in S : \A y \in S : ~ (<<y, x>> \in OpToRel(<, Nat))
  BY NatLessThanWellFounded, WFMin, Zenon
<1>2. PICK x \in S : \A y \in S : ~ (<<y, x>> \in OpToRel(<, Nat)) BY <1>1
<1>3. \A y \in S : x =< y
  <2> SUFFICES ASSUME NEW y \in S PROVE x =< y OBVIOUS
  <2>1. <<y, x>> \notin OpToRel(<, Nat) BY <1>2
  <2>2. x \in Nat /\ y \in Nat OBVIOUS
  <2>3. ~(y < x) BY <2>1, <2>2 DEF OpToRel
  <2> QED BY <2>2, <2>3
<1> QED BY <1>3 DEF Min

(* A location that stores uploads stores them in the directory.            *)
LEMMA StoreOfPath ==
  ASSUME NEW dir, Lists \subseteq {dir}, NEW r, r.path \in Paths, Stores(r)
  PROVE  Store(r) = dir
<1>1. Matching(r.path) # {} /\ Route[r.path] = Min(Matching(r.path))
  BY DEF Route, Stores, Located
<1>2. Matching(r.path) \in SUBSET Nat BY LocationAssumption DEF Matching
<1>3. Route[r.path] \in Matching(r.path) BY <1>1, <1>2, Least
<1>4. Route[r.path] \in DOMAIN Locations BY <1>3 DEF Matching
<1> QED BY <1>4 DEF Lists, Stores, Store, Location

(* So does that of a request.                                              *)
LEMMA StoreIsDir ==
  ASSUME NEW dir, Lists \subseteq {dir}, NEW r \in Request, Stores(r)
  PROVE  Store(r) = dir
<1>1. r.path \in Paths BY DEF Paths, Urls
<1> QED BY <1>1, StoreOfPath

(* The key of a stored file is the last part of its path.                  *)
LEMMA LastAppend ==
  ASSUME NEW S, NEW d \in Seq(S), NEW k PROVE Last(Append(d, k)) = k
<1>1. d \in Seq(S \cup {k}) OBVIOUS
<1> QED BY <1>1 DEF Last

(* A write that is cut short leaves a prefix of the content.               *)
LEMMA PrefixOf ==
  ASSUME NEW S, NEW c \in Seq(S), NEW n \in 0 .. Len(c)
  PROVE  IsPrefix(SubSeq(c, 1, n), c) /\ IsPrefix(c, c)
BY DEF IsPrefix

(* The conjuncts of the invariant: types, where files are, why a key is in *)
(* a list, what it stands for, and what a name in the table promises.      *)
Typed == \A s \in DOMAIN sessions : sessions[s] \in [Key -> Nat]

InStore(dir) == \A p \in DOMAIN disk : \E k \in Key : p = Append(dir, k)

ListedWasUploaded ==
  \A s \in DOMAIN sessions, k \in Key :
    sessions[s][k] > 0 => \E u \in uploads : u.by = s /\ u.key = k

UploadsAreLatest == \A u \in uploads : u.key \in DOMAIN latest

Contents ==
  \A p \in DOMAIN disk : Last(p) \in DOMAIN latest =>
    /\ IsPrefix(disk[p], latest[Last(p)])
    /\ Last(p) \notin torn => disk[p] = latest[Last(p)]

NamedIsStored(dir) ==
  \A k \in DOMAIN names : names[k] # NoName => Append(dir, k) \in DOMAIN disk \/ k \in spoiled

(* What ties memory and disk together.                                     *)
Inv(dir) ==
  /\ Typed /\ InStore(dir) /\ ListedWasUploaded /\ UploadsAreLatest /\ Contents
  /\ NamedIsStored(dir) /\ StoredHasOwner /\ DownloadsAreUploads

(* Answers without a file of the store hand none out.                      *)
LEMMA ReplyFile ==
  ASSUME NEW r, NEW status, NEW body,
         Ok(r, status, body) \/ Throw(r, status)
  PROVE  reply'.file = {}
BY DEF Ok, Throw, Respond

(* A file stored since the start holds what the last upload of its key     *)
(* brought: it is in a list, so it was uploaded.                           *)
LEMMA StoredIsLatest ==
  ASSUME NEW dir, Inv(dir), NEW p \in DOMAIN disk \ leftover
  PROVE  /\ IsPrefix(disk[p], latest[Last(p)])
         /\ Last(p) \notin torn => disk[p] = latest[Last(p)]
<1>1. PICK s \in DOMAIN sessions : Owns(s, Last(p)) BY DEF Inv, StoredHasOwner
<1>2. Last(p) \in Key /\ sessions[s][Last(p)] > 0 BY <1>1 DEF Owns, FilesOf
<1>3. PICK u \in uploads : u.key = Last(p) BY <1>2 DEF Inv, ListedWasUploaded
<1>4. Last(p) \in DOMAIN latest BY <1>3 DEF Inv, UploadsAreLatest
<1> QED BY <1>4 DEF Inv, Contents

(* The record of a file that is handed out.                                *)
LEMMA HandedOutFile ==
  ASSUME NEW r, NEW p, NEW how, NEW f \in HandedOut(r, p, how)
  PROVE  /\ p \in DOMAIN disk
         /\ f.to = r.cookie /\ f.at = p /\ f.how = how /\ f.data = disk[p]
BY DEF HandedOut

(* So does what a plain GET hands out, if it is no file left over.         *)
LEMMA HandedOutIsLatest ==
  ASSUME NEW dir, Inv(dir), UNCHANGED <<leftover, uploads, latest, torn>>,
         NEW r, NEW p, reply'.file = HandedOut(r, p, "get")
  PROVE  DownloadsAreUploads'
<1>1. ASSUME NEW f \in reply'.file
      PROVE  /\ f.how = "get"
             /\ f.at \notin leftover =>
                  /\ IsPrefix(f.data, latest[Last(f.at)])
                  /\ Last(f.at) \notin torn => f.data = latest[Last(f.at)]
  <2>1. f.at = p /\ p \in DOMAIN disk /\ f.how = "get" /\ f.data = disk[p]
    BY HandedOutFile
  <2> QED BY <2>1, StoredIsLatest
<1>2. leftover' = leftover /\ latest' = latest /\ torn' = torn OBVIOUS
<1> QED BY <1>1, <1>2 DEF DownloadsAreUploads

(* A new session lists nothing.                                            *)
LEMMA NoFilesTyped == NoFiles \in [Key -> Nat] /\ \A k \in Key : NoFiles[k] = 0
BY DEF NoFiles

(* A step that keeps the stores keeps the invariant, if it hands out       *)
(* nothing new.                                                            *)
LEMMA QuietStep ==
  ASSUME NEW dir, Inv(dir), UNCHANGED <<memory, disk, history>>,
         reply' = reply \/ reply'.file = {}
  PROVE  Inv(dir)'
<1> USE DEF Inv, memory, history
<1>1. Typed' /\ InStore(dir)' /\ ListedWasUploaded' /\ UploadsAreLatest' /\ Contents'
  BY DEF Typed, InStore, ListedWasUploaded, UploadsAreLatest, Contents
<1>2. StoredHasOwner'
  BY DEF StoredHasOwner, Owns, FilesOf
<1>3. NamedIsStored(dir)' /\ DownloadsAreUploads'
  BY DEF NamedIsStored, DownloadsAreUploads
<1> QED BY <1>1, <1>2, <1>3

(* So does one that adds an empty session, or entries without a name.      *)
LEMMA AddingStep ==
  ASSUME NEW dir, Inv(dir),
         UNCHANGED <<disk, leftover, uploads, latest, spoiled, torn>>,
         sessions' = sessions \/ \E t : sessions' = With(sessions, t, FilesOf(t)),
         names' = names \/ \E ks : names' = Touched(ks),
         \/ reply' = reply \/ reply'.file = {}
         \/ \E r, p : reply'.file = HandedOut(r, p, "get")
  PROVE  Inv(dir)'
<1> USE DEF Inv
<1>1. \A s \in DOMAIN sessions : s \in DOMAIN sessions' /\ sessions'[s] = sessions[s]
  BY DEF With, FilesOf
<1>2. \A s \in DOMAIN sessions' \ DOMAIN sessions : sessions'[s] = NoFiles
  <2> SUFFICES ASSUME NEW s \in DOMAIN sessions', s \notin DOMAIN sessions
               PROVE  sessions'[s] = NoFiles
    OBVIOUS
  <2>1. PICK t : sessions' = With(sessions, t, FilesOf(t)) OBVIOUS
  <2>2. s = t /\ sessions'[s] = FilesOf(t) BY <2>1 DEF With
  <2> QED BY <2>2 DEF FilesOf
<1>3. \A k \in DOMAIN names : k \in DOMAIN names' /\ names'[k] = names[k]
  BY DEF Touched
<1>4. Typed' BY <1>1, <1>2, NoFilesTyped DEF Typed
<1>5. InStore(dir)' /\ UploadsAreLatest' /\ Contents'
  BY DEF InStore, UploadsAreLatest, Contents
<1>6. ListedWasUploaded'
  BY <1>1, <1>2, NoFilesTyped DEF ListedWasUploaded
<1>7. StoredHasOwner'
  BY <1>1, <1>3 DEF StoredHasOwner, Owns, FilesOf
<1>8. DownloadsAreUploads'
  <2>1. CASE reply' = reply \/ reply'.file = {} BY <2>1 DEF DownloadsAreUploads
  <2>2. CASE \E r, p : reply'.file = HandedOut(r, p, "get") BY <2>2, HandedOutIsLatest
  <2> QED BY <2>1, <2>2
<1>9. \A k \in DOMAIN names' \ DOMAIN names : names'[k] = NoName BY DEF Touched
<1>10. NamedIsStored(dir)' BY <1>3, <1>9 DEF NamedIsStored
<1> QED BY <1>4, <1>5, <1>6, <1>7, <1>8, <1>10

(* An upload: the key gets a name, a place in the list and the content.    *)
LEMMA UploadStep ==
  ASSUME NEW S, NEW dir \in Seq(S), Inv(dir), NEW r, NEW k \in Key, NEW name \in Name,
         NEW content, NEW written,
         Store(r) = dir, r.cookie \in DOMAIN sessions,
         IsPrefix(written, content), names' = With(names, k, name),
         Confirm(r, k, content, written)
  PROVE  Inv(dir)'
<1> USE DEF Inv
<1> DEFINE p == Append(dir, k)
<1>p. Last(p) = k BY LastAppend
<1>r. reply'.file = {} BY ReplyFile DEF Confirm
<1>1. /\ disk' = With(disk, p, written)
      /\ sessions' = [sessions EXCEPT ![r.cookie][k] = @ + 1]
      /\ leftover' = leftover \ {p}
      /\ uploads' = uploads \cup {[by |-> r.cookie, key |-> k, at |-> r.path]}
      /\ latest' = With(latest, k, content)
      /\ torn' = IF written = content THEN torn \ {k} ELSE torn \cup {k}
      /\ spoiled' = spoiled \ {k}
  BY DEF Confirm
<1>2. DOMAIN disk' = DOMAIN disk \cup {p} /\ disk'[p] = written
  BY <1>1 DEF With
<1>3. \A q \in DOMAIN disk : q # p => disk'[q] = disk[q] /\ Last(q) # k
  <2> SUFFICES ASSUME NEW q \in DOMAIN disk, q # p PROVE disk'[q] = disk[q] /\ Last(q) # k
    OBVIOUS
  <2>1. disk'[q] = disk[q] BY <1>1 DEF With
  <2>2. PICK j \in Key : q = Append(dir, j) BY DEF InStore
  <2>3. Last(q) = j BY <2>2, LastAppend
  <2> QED BY <2>1, <2>2, <2>3
<1>4. DOMAIN latest' = DOMAIN latest \cup {k} /\ latest'[k] = content
      /\ \A j \in DOMAIN latest : j # k => latest'[j] = latest[j]
  BY <1>1 DEF With
<1> HIDE DEF p
<1>5. DOMAIN sessions' = DOMAIN sessions BY <1>1
<1>6. sessions'[r.cookie] = [sessions[r.cookie] EXCEPT ![k] = @ + 1]
      /\ \A s \in DOMAIN sessions : s # r.cookie => sessions'[s] = sessions[s]
  BY <1>1
<1>7. sessions'[r.cookie] \in [Key -> Nat] /\ sessions'[r.cookie][k] > 0
      /\ \A j \in Key : j # k => sessions'[r.cookie][j] = sessions[r.cookie][j]
  BY <1>6 DEF Typed
<1>8. Typed' BY <1>5, <1>6, <1>7 DEF Typed
<1>9. InStore(dir)' BY <1>2 DEF InStore, p
<1>10. ListedWasUploaded'
  <2> SUFFICES ASSUME NEW s \in DOMAIN sessions, NEW j \in Key, sessions'[s][j] > 0
               PROVE  \E u \in uploads' : u.by = s /\ u.key = j
    BY <1>5 DEF ListedWasUploaded
  <2>1. CASE s = r.cookie /\ j = k
    <3> DEFINE u == [by |-> r.cookie, key |-> k, at |-> r.path]
    <3>1. u.by = s /\ u.key = j BY <2>1
    <3>2. u \in uploads' BY <1>1
    <3> HIDE DEF u
    <3> QED BY <3>1, <3>2
  <2>2. CASE ~(s = r.cookie /\ j = k)
    <3>1. sessions'[s][j] = sessions[s][j] BY <2>2, <1>6, <1>7
    <3> QED BY <3>1, <1>1 DEF ListedWasUploaded
  <2> QED BY <2>1, <2>2
<1>11. UploadsAreLatest' BY <1>1, <1>4 DEF UploadsAreLatest
<1>12. Contents'
  <2> SUFFICES ASSUME NEW q \in DOMAIN disk', Last(q) \in DOMAIN latest'
               PROVE  /\ IsPrefix(disk'[q], latest'[Last(q)])
                      /\ Last(q) \notin torn' => disk'[q] = latest'[Last(q)]
    BY DEF Contents
  <2>1. CASE q = p BY <2>1, <1>p, <1>1, <1>2, <1>4
  <2>2. CASE q # p
    <3>1. q \in DOMAIN disk /\ disk'[q] = disk[q] /\ Last(q) # k BY <2>2, <1>2, <1>3
    <3>2. Last(q) \in DOMAIN latest /\ latest'[Last(q)] = latest[Last(q)]
      BY <3>1, <1>4
    <3>3. Last(q) \in torn <=> Last(q) \in torn' BY <3>1, <1>1
    <3> QED BY <3>1, <3>2, <3>3 DEF Contents
  <2> QED BY <2>1, <2>2
<1>13. StoredHasOwner'
  <2> SUFFICES ASSUME NEW q \in DOMAIN disk', q \notin leftover'
               PROVE  /\ Last(q) \in DOMAIN names' /\ names'[Last(q)] # NoName
                      /\ \E s \in DOMAIN sessions' : Owns(s, Last(q))'
    BY DEF StoredHasOwner
  <2>1. CASE q = p
    <3>1. k \in DOMAIN names' /\ names'[k] = name BY DEF With
    <3>2. Owns(r.cookie, k)' BY <1>5, <1>7 DEF Owns, FilesOf
    <3> QED BY <2>1, <1>p, <1>5, <3>1, <3>2, NameAssumption
  <2>2. CASE q # p
    <3>1. q \in DOMAIN disk \ leftover /\ Last(q) # k BY <2>2, <1>1, <1>2, <1>3
    <3>2. Last(q) \in DOMAIN names /\ names[Last(q)] # NoName BY <3>1 DEF StoredHasOwner
    <3>3. Last(q) \in DOMAIN names' /\ names'[Last(q)] = names[Last(q)]
      BY <3>1, <3>2 DEF With
    <3>4. PICK s \in DOMAIN sessions : Owns(s, Last(q)) BY <3>1 DEF StoredHasOwner
    <3>5. Owns(s, Last(q))' BY <3>1, <3>4, <1>5, <1>6, <1>7 DEF Owns, FilesOf
    <3> QED BY <3>2, <3>3, <3>5, <1>5
  <2> QED BY <2>1, <2>2
<1>14. DownloadsAreUploads' BY <1>r DEF DownloadsAreUploads
<1>15. NamedIsStored(dir)'
  <2>1. \A j \in DOMAIN names' : j # k => j \in DOMAIN names /\ names'[j] = names[j]
    BY DEF With
  <2> QED BY <2>1, <1>1, <1>2 DEF NamedIsStored, p
<1> QED BY <1>8, <1>9, <1>10, <1>11, <1>12, <1>13, <1>14, <1>15

(* An upload that fails leaves its name behind.                            *)
LEMMA FailedUpload ==
  ASSUME NEW dir, Inv(dir), NEW k, NEW name \in Name,
         UNCHANGED <<sessions, disk, leftover, uploads, latest, torn>>,
         names' = With(names, k, name), spoiled' = spoiled \cup {k}, reply'.file = {}
  PROVE  Inv(dir)'
<1> USE DEF Inv
<1>1. Typed' /\ InStore(dir)' /\ ListedWasUploaded' /\ UploadsAreLatest' /\ Contents'
  BY DEF Typed, InStore, ListedWasUploaded, UploadsAreLatest, Contents
<1>2. \A j \in DOMAIN names : j \in DOMAIN names' /\ names'[j] \in {names[j], name}
  BY DEF With
<1>3. StoredHasOwner'
  BY <1>2, NameAssumption DEF StoredHasOwner, Owns, FilesOf
<1>4. DownloadsAreUploads' BY DEF DownloadsAreUploads
<1>5. \A j \in DOMAIN names' : j # k => j \in DOMAIN names /\ names'[j] = names[j]
  BY DEF With
<1>6. NamedIsStored(dir)' BY <1>5 DEF NamedIsStored
<1> QED BY <1>1, <1>3, <1>4, <1>6

(* A deletion takes the file, its name and its places in one list; another *)
(* session may still list it, but finds no name.                           *)
LEMMA DeleteStep ==
  ASSUME NEW S, NEW dir \in Seq(S), Inv(dir), NEW r, NEW k \in Key,
         Store(r) = dir, r.cookie \in DOMAIN sessions,
         Removed(r, k), reply'.file = {}
  PROVE  Inv(dir)'
<1> USE DEF Inv
<1>1. /\ disk' = Without(disk, Append(dir, k)) /\ names' = Without(names, k)
      /\ sessions' = [sessions EXCEPT ![r.cookie] = Unlisted(r.cookie, k)]
      /\ leftover' = leftover \ {Append(dir, k)}
      /\ uploads' = {u \in uploads : ~(u.by = r.cookie /\ u.key = k)}
      /\ UNCHANGED <<latest, torn, spoiled>>
  BY DEF Removed
<1>2. \A q \in DOMAIN disk' : /\ q \in DOMAIN disk /\ disk'[q] = disk[q] /\ Last(q) # k
                              /\ q \notin leftover' => q \notin leftover
  <2> SUFFICES ASSUME NEW q \in DOMAIN disk'
               PROVE  /\ q \in DOMAIN disk /\ disk'[q] = disk[q] /\ Last(q) # k
                      /\ q \notin leftover' => q \notin leftover
    OBVIOUS
  <2>1. q \in DOMAIN disk /\ q # Append(dir, k) /\ disk'[q] = disk[q] BY <1>1 DEF Without
  <2>2. PICK j \in Key : q = Append(dir, j) BY <2>1 DEF InStore
  <2>3. Last(q) = j BY <2>2, LastAppend
  <2> QED BY <2>1, <2>2, <2>3, <1>1
<1>3. DOMAIN sessions' = DOMAIN sessions
      /\ sessions'[r.cookie] = [sessions[r.cookie] EXCEPT ![k] = 0]
      /\ \A s \in DOMAIN sessions : s # r.cookie => sessions'[s] = sessions[s]
  BY <1>1 DEF Unlisted
<1>4. /\ sessions'[r.cookie] \in [Key -> Nat] /\ sessions'[r.cookie][k] = 0
      /\ \A j \in Key : j # k => sessions'[r.cookie][j] = sessions[r.cookie][j]
  BY <1>3 DEF Typed
<1>5. Typed' BY <1>3, <1>4 DEF Typed
<1>6. InStore(dir)' BY <1>2 DEF InStore
<1>7. ListedWasUploaded'
  <2> SUFFICES ASSUME NEW s \in DOMAIN sessions, NEW j \in Key, sessions'[s][j] > 0
               PROVE  \E u \in uploads' : u.by = s /\ u.key = j
    BY <1>3 DEF ListedWasUploaded
  <2>1. ~(s = r.cookie /\ j = k) BY <1>4
  <2>2. sessions'[s][j] = sessions[s][j] BY <2>1, <1>3, <1>4
  <2>3. PICK u \in uploads : u.by = s /\ u.key = j BY <2>2 DEF ListedWasUploaded
  <2> QED BY <2>1, <2>3, <1>1
<1>8. UploadsAreLatest' /\ Contents' BY <1>1, <1>2 DEF UploadsAreLatest, Contents
<1>9. StoredHasOwner'
  <2> SUFFICES ASSUME NEW q \in DOMAIN disk', q \notin leftover'
               PROVE  /\ Last(q) \in DOMAIN names' /\ names'[Last(q)] # NoName
                      /\ \E s \in DOMAIN sessions' : Owns(s, Last(q))'
    BY DEF StoredHasOwner
  <2>1. q \in DOMAIN disk \ leftover /\ Last(q) # k BY <1>2
  <2>2. Last(q) \in DOMAIN names' /\ names'[Last(q)] # NoName
    BY <2>1, <1>1 DEF StoredHasOwner, Without
  <2>3. PICK s \in DOMAIN sessions : Owns(s, Last(q)) BY <2>1 DEF StoredHasOwner
  <2>4. Owns(s, Last(q))' BY <2>1, <2>3, <1>3, <1>4 DEF Owns, FilesOf
  <2> QED BY <2>2, <2>4, <1>3
<1>10. DownloadsAreUploads' BY DEF DownloadsAreUploads
<1>11. NamedIsStored(dir)'
  <2> SUFFICES ASSUME NEW j \in DOMAIN names', names'[j] # NoName, j \notin spoiled
               PROVE  Append(dir, j) \in DOMAIN disk'
    BY <1>1 DEF NamedIsStored
  <2>1. j # k /\ j \in DOMAIN names /\ names[j] # NoName BY <1>1 DEF Without
  <2>2. Append(dir, j) \in DOMAIN disk BY <2>1 DEF NamedIsStored
  <2>3. Append(dir, j) # Append(dir, k) BY <2>1, LastAppend
  <2> QED BY <2>2, <2>3, <1>1 DEF Without
<1> QED BY <1>5, <1>6, <1>7, <1>8, <1>9, <1>10, <1>11

-----------------------------------------------------------------------------
(* The handlers.  A GET keeps the invariant, with a new session or not.    *)

LEMMA GetKeeps ==
  ASSUME NEW dir, Inv(dir), NEW r \in Request, HandleGet(r) PROVE Inv(dir)'
<1>0. ASSUME NEW p, Serve(r, p)
      PROVE  reply'.file = {} \/ reply'.file = HandedOut(r, p, "get")
  <2>1. CASE p \in Unreadable BY <1>0, <2>1, ReplyFile DEF Serve
  <2>2. CASE p \notin Unreadable
    <3> DEFINE file == HandedOut(r, p, "get")
    <3>1. Respond(r, 200, Content(p), file, FALSE) BY <1>0, <2>2 DEF Serve
    <3> HIDE DEF file
    <3>2. reply'.file = file BY <3>1 DEF Respond
    <3> QED BY <3>2 DEF file
  <2> QED BY <2>1, <2>2
<1>1. reply'.file = {} \/ \E q, p : reply'.file = HandedOut(q, p, "get")
  BY <1>0, ReplyFile DEF HandleGet, HandleAutoindex
<1>2. CASE UNCHANGED <<sessions, issued>>
  BY <1>1, <1>2, AddingStep DEF HandleGet
<1>3. CASE \E s \in Session \ issued : sessions' = With(sessions, s, FilesOf(s))
  BY <1>1, <1>3, AddingStep DEF HandleGet
<1> QED BY <1>2, <1>3 DEF HandleGet, SetSecureCookie

(* A listing keeps the invariant, for a session nobody knew too.           *)
LEMMA ListKeeps ==
  ASSUME NEW dir, Inv(dir), NEW r \in Request, HandleList(r) PROVE Inv(dir)'
<1>1. reply'.file = {} BY ReplyFile DEF HandleList
<1>2. CASE UNCHANGED memory BY <1>1, <1>2, QuietStep DEF HandleList
<1>3. CASE ~UNCHANGED memory
  BY <1>1, <1>3, AddingStep DEF HandleList, history
<1> QED BY <1>2, <1>3

(* What is handed out is on disk in the store, under a key of the session. *)
LEMMA DownloadKeeps ==
  ASSUME NEW S, NEW dir \in Seq(S), Lists \subseteq {dir}, Inv(dir),
         NEW r \in Request, HandleDownload(r)
  PROVE  Inv(dir)'
<1> DEFINE k == AsKey(DownloadKey(r))
<1>1. CASE r.path = DownloadUrl
  BY <1>1, QuietStep DEF HandleDownload, Dies
<1> HIDE DEF k
<1>2. CASE r.path # DownloadUrl /\ (reply' = reply \/ reply'.file = {})
  BY <1>2, AddingStep DEF HandleDownload, history
<1>3. CASE r.path # DownloadUrl /\ ~(reply' = reply \/ reply'.file = {})
  <2>1. /\ UNCHANGED <<sessions, disk, history>> /\ names' = Touched({k})
        /\ ValidSession(r.cookie) /\ Owns(r.cookie, k) /\ Located(r) /\ Download(r, k)
    BY <1>3, ReplyFile DEF HandleDownload, k
  <2>2. /\ Store(r) # Nothing /\ Append(Store(r), k) \in DOMAIN disk
        /\ reply'.file = HandedOut(r, Append(Store(r), k), "download")
    <3>1. \A c : ~Throw(r, c) BY <1>3, ReplyFile
    <3>2. /\ Store(r) # Nothing /\ Append(Store(r), k) \in DOMAIN disk
          /\ Respond(r, 200, Nothing, HandedOut(r, Append(Store(r), k), "download"), FALSE)
      BY <2>1, <3>1 DEF Download
    <3> QED BY <3>2 DEF Respond
  <2>3. Store(r) = dir BY <2>1, <2>2, StoreIsDir DEF Stores
  <2>4. DownloadsAreUploads'
    <3> SUFFICES ASSUME NEW f \in reply'.file
                 PROVE  /\ \E u \in uploads' : u.by = f.to /\ u.key = Last(f.at)
                        /\ IsPrefix(f.data, latest'[Last(f.at)])
                        /\ Last(f.at) \notin torn' => f.data = latest'[Last(f.at)]
      BY Zenon DEF DownloadsAreUploads
    <3>1. f.to = r.cookie /\ f.at = Append(dir, k) /\ f.data = disk[Append(dir, k)]
      <4> DEFINE p == Append(dir, k)
      <4>1. f \in HandedOut(r, p, "download") BY <2>2, <2>3, Zenon
      <4> HIDE DEF p
      <4>2. f.to = r.cookie /\ f.at = p /\ f.data = disk[p] BY <4>1, HandedOutFile
      <4> QED BY <4>2 DEF p
    <3>2. PICK u \in uploads : u.by = r.cookie /\ u.key = k
      BY <2>1 DEF Inv, ListedWasUploaded, Owns, FilesOf, ValidSession
    <3>3. k \in DOMAIN latest BY <3>2 DEF Inv, UploadsAreLatest
    <3>4. Last(Append(dir, k)) = k BY LastAppend
    <3> QED BY <3>1, <3>2, <3>3, <3>4, <2>1, <2>2, <2>3 DEF Inv, Contents, history
  <2>5. Typed' /\ InStore(dir)' /\ ListedWasUploaded' /\ UploadsAreLatest' /\ Contents'
    BY <2>1 DEF Inv, Typed, InStore, ListedWasUploaded, UploadsAreLatest, Contents, history
  <2>6. \A j \in DOMAIN names : j \in DOMAIN names' /\ names'[j] = names[j]
    BY <2>1 DEF Touched
  <2>7. StoredHasOwner'
    BY <2>1, <2>6 DEF Inv, StoredHasOwner, Owns, FilesOf, history
  <2>8. \A j \in DOMAIN names' \ DOMAIN names : names'[j] = NoName
    BY <2>1 DEF Touched
  <2>9. NamedIsStored(dir)' BY <2>1, <2>6, <2>8 DEF Inv, NamedIsStored, history
  <2> QED BY <2>4, <2>5, <2>7, <2>9 DEF Inv
<1> QED BY <1>1, <1>2, <1>3

(* An upload: refused, failed, cut short or complete.                      *)
LEMMA PostKeeps ==
  ASSUME NEW S, NEW dir \in Seq(S), Lists \subseteq {dir}, Inv(dir),
         NEW r \in Request, Stores(r), HandlePost(r)
  PROVE  Inv(dir)'
<1>1. CASE PostError(r) # 0
  BY <1>1, QuietStep, ReplyFile DEF HandlePost
<1>2. CASE PostError(r) = 0
  <2>1. r.type = "multipart" /\ ValidSession(r.cookie) BY <1>2 DEF PostError
  <2> DEFINE name == FileName(r.part)
             content == FileContent(r.part)
             k == HashOf[name]
  <2>2. name \in Name /\ k \in Key
    BY <2>1, RequestAssumption, HashAssumption DEF FileName
  <2>3. content \in Seq(Text \cup {"crlf"})
    BY <2>1, RequestAssumption DEF FileContent, Nothing
  <2>4. UploadHashedFile(r, k, name, content) BY <1>2 DEF HandlePost
  <2>5. Store(r) = dir BY StoreIsDir
  <2>6. r.cookie \in DOMAIN sessions BY <2>1 DEF ValidSession
  <2> HIDE DEF name, content, k
  <2>7. names' = With(names, k, name) BY <2>4 DEF UploadHashedFile
  <2>8. ASSUME NEW written, Confirm(r, k, content, written), IsPrefix(written, content)
        PROVE  Inv(dir)'
    BY <2>2, <2>5, <2>6, <2>7, <2>8, UploadStep
  <2>9. CASE Confirm(r, k, content, content)
    <3>1. IsPrefix(content, content) BY <2>3, PrefixOf
    <3> QED BY <2>8, <2>9, <3>1
  <2>10. CASE \E n \in 0 .. Len(content) - 1 :
                 Confirm(r, k, content, SubSeq(content, 1, n))
    <3>1. PICK n \in 0 .. Len(content) - 1 : Confirm(r, k, content, SubSeq(content, 1, n))
      BY <2>10
    <3>2. n \in 0 .. Len(content) BY <2>3
    <3>3. IsPrefix(SubSeq(content, 1, n), content) BY <2>3, <3>2, PrefixOf
    <3> QED BY <2>8, <3>1, <3>3
  <2>11. CASE /\ Throw(r, 500) /\ spoiled' = spoiled \cup {k}
              /\ UNCHANGED <<sessions, disk, leftover, uploads, latest, torn>>
    BY <2>2, <2>7, <2>11, FailedUpload, ReplyFile
  <2> QED BY <2>4, <2>9, <2>10, <2>11 DEF UploadHashedFile
<1> QED BY <1>1, <1>2

(* A deletion: refused, failed or done.                                    *)
LEMMA DeleteKeeps ==
  ASSUME NEW S, NEW dir \in Seq(S), Lists \subseteq {dir}, Inv(dir),
         NEW r \in Request, Stores(r), HandleDelete(r)
  PROVE  Inv(dir)'
<1> DEFINE k == DeleteKey(r)
<1>1. reply'.file = {} BY ReplyFile DEF HandleDelete, DeleteFile
<1>2. CASE UNCHANGED <<memory, disk, history>> BY <1>1, <1>2, QuietStep
<1>3. CASE ~UNCHANGED <<memory, disk, history>>
  <2>1. DeleteError(r) = 0 /\ Removed(r, k) BY <1>3 DEF HandleDelete, DeleteFile
  <2>2. r.cookie \in DOMAIN sessions /\ k \in Key
    BY <2>1 DEF DeleteError, ValidSession, Owns
  <2> HIDE DEF k
  <2> QED BY <1>1, <2>1, <2>2, StoreIsDir, DeleteStep
<1> QED BY <1>2, <1>3

(* The invariant holds of the empty stores.                                *)
LEMMA InitInv == ASSUME NEW dir, Init PROVE Inv(dir)
<1>1. DOMAIN Nothing = {} /\ NoReply.file = {} BY DEF Nothing, NoReply
<1>2. DOMAIN sessions = {} /\ DOMAIN disk = {} /\ uploads = {} /\ reply.file = {}
      /\ DOMAIN names = {}
  BY <1>1 DEF Init
<1> QED BY <1>2 DEF Inv, Typed, InStore, ListedWasUploaded, UploadsAreLatest, Contents,
                    NamedIsStored, StoredHasOwner, DownloadsAreUploads

(* After a restart all files are left over, and no session lists any.      *)
LEMMA RestartKeeps == ASSUME NEW dir, Inv(dir), Restart PROVE Inv(dir)'
<1>1. NoReply.file = {} BY DEF NoReply
<1>2. /\ DOMAIN sessions' = {} /\ DOMAIN latest' = {} /\ uploads' = {} /\ DOMAIN names' = {}
      /\ disk' = disk /\ leftover' = DOMAIN disk /\ reply' = NoReply
  BY DEF Restart, Nothing
<1> QED BY <1>1, <1>2 DEF Inv, Typed, InStore, ListedWasUploaded, UploadsAreLatest, Contents,
                    NamedIsStored, StoredHasOwner, DownloadsAreUploads

(* The invariant is inductive.                                             *)
LEMMA StepKeeps ==
  ASSUME NEW S, NEW dir \in Seq(S), Lists \subseteq {dir}, Inv(dir), [Next]_vars
  PROVE  Inv(dir)'
<1>1. CASE Restart BY <1>1, RestartKeeps
<1>2. ASSUME NEW r \in Request,
             HandleRedirection(r) \/ CheckAllowedMethods(r) \/ NoHandler(r)
      PROVE  Inv(dir)'
  BY <1>2, QuietStep, ReplyFile DEF HandleRedirection, CheckAllowedMethods, NoHandler
<1>3. CASE Dies BY <1>3, QuietStep DEF Dies
<1>4. ASSUME NEW r \in Request, IsPost(r), HandlePost(r) PROVE Inv(dir)'
  BY <1>4, PostKeeps DEF IsPost
<1>5. ASSUME NEW r \in Request, IsDelete(r), HandleDelete(r) PROVE Inv(dir)'
  BY <1>5, DeleteKeeps DEF IsDelete
<1>6. CASE UNCHANGED vars BY <1>6, QuietStep DEF vars
<1>7. CASE HandleRequest
  BY <1>2, <1>3, <1>4, <1>5, <1>7, GetKeeps, ListKeeps, DownloadKeeps
     DEF HandleRequest, Redirections, Forbidden, Gets, ListGets, Downloads, Posts,
         Deletes, Unhandled
<1> QED BY <1>1, <1>6, <1>7 DEF Next

(* With one upload directory, every file stored since the start is named   *)
(* and listed by a session, whatever fails in an upload or a deletion.     *)
THEOREM StoredAreOwned ==
  ASSUME NEW S, NEW dir \in Seq(S), Lists \subseteq {dir} PROVE Spec => []StoredHasOwner
<1>1. Init => Inv(dir) BY InitInv
<1>2. Inv(dir) /\ [Next]_vars => Inv(dir)' BY StepKeeps
<1>3. Inv(dir) => StoredHasOwner BY DEF Inv
<1> QED BY <1>1, <1>2, <1>3, PTL DEF Spec

(* A download is what its receiver's upload, or a later one of the same    *)
(* key, stored, up to a write that was cut short; a plain GET of a path in *)
(* the store, by whomever, is that too unless the file was left over.      *)
THEOREM DownloadsWereUploaded ==
  ASSUME NEW S, NEW dir \in Seq(S), Lists \subseteq {dir} PROVE Spec => []DownloadsAreUploads
<1>1. Init => Inv(dir) BY InitInv
<1>2. Inv(dir) /\ [Next]_vars => Inv(dir)' BY StepKeeps
<1>3. Inv(dir) => DownloadsAreUploads BY DEF Inv
<1> QED BY <1>1, <1>2, <1>3, PTL DEF Spec

(* What a session is shown is on disk, unless an upload of the key failed. *)
THEOREM ListedAreStored ==
  ASSUME NEW S, NEW dir \in Seq(S), Lists = {dir} PROVE Spec => []ListedIsStored
<1>1. Init => Inv(dir) BY InitInv
<1>2. Inv(dir) /\ [Next]_vars => Inv(dir)' BY StepKeeps
<1>3. Inv(dir) => ListedIsStored
  BY DEF Inv, NamedIsStored, ListedIsStored, Shown, Stored
<1> QED BY <1>1, <1>2, <1>3, PTL DEF Spec

-----------------------------------------------------------------------------
(* Types                                                                   *)

(* A step that answers leaves the process up.                              *)
LEMMA AnswersUp ==
  ASSUME NEW r, NEW status, NEW body, NEW file, NEW thrown,
         \/ Respond(r, status, body, file, thrown) \/ Throw(r, status) \/ Ok(r, status, body)
  PROVE  up' \in BOOLEAN
BY DEF Throw, Ok, Respond

(* Nothing but the answer changes.                                         *)
LEMMA QuietTyped ==
  ASSUME TypeOK, up' \in BOOLEAN, UNCHANGED <<memory, disk, history>> PROVE TypeOK'
BY DEF TypeOK, memory, history

(* A session or entries without a name may be new.                         *)
LEMMA AddingTyped ==
  ASSUME TypeOK, up' \in BOOLEAN, issued' \subseteq Session,
         UNCHANGED <<disk, leftover, uploads, latest, spoiled, torn>>,
         sessions' = sessions \/ \E t \in Session : sessions' = With(sessions, t, FilesOf(t)),
         names' = names \/ \E ks \in SUBSET Key : names' = Touched(ks)
  PROVE  TypeOK'
<1>1. DOMAIN sessions' \subseteq Session /\ \A s \in DOMAIN sessions' : sessions'[s] \in [Key -> Nat]
  <2>1. CASE sessions' = sessions BY <2>1 DEF TypeOK
  <2>2. CASE \E t \in Session : sessions' = With(sessions, t, FilesOf(t))
    <3>1. PICK t \in Session : sessions' = With(sessions, t, FilesOf(t)) BY <2>2
    <3>2. FilesOf(t) \in [Key -> Nat] BY NoFilesTyped DEF FilesOf, TypeOK
    <3>3. \A s \in DOMAIN sessions \cup {t} : sessions'[s] = IF s = t THEN FilesOf(t) ELSE sessions[s]
      BY <3>1 DEF With
    <3>4. DOMAIN sessions' = DOMAIN sessions \cup {t} BY <3>1 DEF With
    <3> QED BY <3>2, <3>3, <3>4 DEF TypeOK
  <2> QED BY <2>1, <2>2
<1>2. DOMAIN names' \subseteq Key /\ \A k \in DOMAIN names' : names'[k] \in Name \cup {NoName}
  BY DEF Touched, TypeOK
<1> QED BY <1>1, <1>2 DEF TypeOK

(* An upload is listed for its session, as the latest of its key.          *)
LEMMA ConfirmTyped ==
  ASSUME TypeOK, NEW r \in Request, NEW k \in Key, NEW name \in Name, NEW content, NEW written,
         r.cookie \in DOMAIN sessions, names' = With(names, k, name), UNCHANGED issued,
         Confirm(r, k, content, written)
  PROVE  TypeOK'
<1> DEFINE p == Append(Store(r), k)
<1>1. /\ disk' = With(disk, p, written)
      /\ sessions' = [sessions EXCEPT ![r.cookie][k] = @ + 1]
      /\ leftover' = leftover \ {p}
      /\ uploads' = uploads \cup {[by |-> r.cookie, key |-> k, at |-> r.path]}
      /\ latest' = With(latest, k, content)
      /\ spoiled' = spoiled \ {k}
      /\ torn' \subseteq torn \cup {k}
  BY DEF Confirm
<1>2. up' \in BOOLEAN BY AnswersUp DEF Confirm
<1> HIDE DEF p
<1>3. DOMAIN disk' = DOMAIN disk \cup {p} /\ DOMAIN latest' = DOMAIN latest \cup {k}
  BY <1>1 DEF With, Without
<1>4. DOMAIN sessions' = DOMAIN sessions /\ \A s \in DOMAIN sessions : sessions'[s] \in [Key -> Nat]
  <2>1. \A s \in DOMAIN sessions : sessions[s] \in [Key -> Nat] BY DEF TypeOK
  <2>2. \A s \in DOMAIN sessions : sessions'[s] =
          IF s = r.cookie THEN [sessions[s] EXCEPT ![k] = @ + 1] ELSE sessions[s]
    BY <1>1
  <2>3. \A f \in [Key -> Nat] : [f EXCEPT ![k] = @ + 1] \in [Key -> Nat] OBVIOUS
  <2> QED BY <1>1, <2>1, <2>2, <2>3
<1>5. DOMAIN names' \subseteq Key /\ \A j \in DOMAIN names' : names'[j] \in Name \cup {NoName}
  <2>1. DOMAIN names' = DOMAIN names \cup {k} BY DEF With
  <2>2. \A j \in DOMAIN names \cup {k} : names'[j] = IF j = k THEN name ELSE names[j] BY DEF With
  <2> QED BY <2>1, <2>2 DEF TypeOK
<1>6. uploads' \subseteq [by : Session, key : Key, at : Urls]
  <2>1. r.cookie \in Session /\ r.path \in Urls BY DEF TypeOK, Urls
  <2>2. [by |-> r.cookie, key |-> k, at |-> r.path] \in [by : Session, key : Key, at : Urls] BY <2>1
  <2> QED BY <1>1, <2>2 DEF TypeOK
<1>7. leftover' \subseteq DOMAIN disk' /\ DOMAIN latest' \subseteq Key
      /\ spoiled' \subseteq Key /\ torn' \subseteq DOMAIN latest'
  BY <1>1, <1>3 DEF TypeOK
<1> QED BY <1>2, <1>4, <1>5, <1>6, <1>7 DEF TypeOK

(* A failed upload leaves its name.                                        *)
LEMMA FailedTyped ==
  ASSUME TypeOK, up' \in BOOLEAN, NEW k \in Key, NEW name \in Name,
         UNCHANGED <<sessions, disk, issued, leftover, uploads, latest, torn>>,
         names' = With(names, k, name), spoiled' = spoiled \cup {k}
  PROVE  TypeOK'
<1>1. DOMAIN names' = DOMAIN names \cup {k} BY DEF With
<1>2. \A j \in DOMAIN names \cup {k} : names'[j] = IF j = k THEN name ELSE names[j] BY DEF With
<1> QED BY <1>1, <1>2 DEF TypeOK

(* A deletion takes the key out of every table.                            *)
LEMMA RemovedTyped ==
  ASSUME TypeOK, up' \in BOOLEAN, NEW r, NEW k \in Key, r.cookie \in DOMAIN sessions, Removed(r, k)
  PROVE  TypeOK'
<1> DEFINE p == Append(Store(r), k)
<1>1. /\ disk' = Without(disk, p) /\ names' = Without(names, k)
      /\ sessions' = [sessions EXCEPT ![r.cookie] = [sessions[r.cookie] EXCEPT ![k] = 0]]
      /\ leftover' = leftover \ {p} /\ uploads' \subseteq uploads
      /\ UNCHANGED <<issued, latest, spoiled, torn>>
  BY DEF Removed, Unlisted
<1> HIDE DEF p
<1>2. DOMAIN disk' = DOMAIN disk \ {p} BY <1>1 DEF With, Without
<1>3. DOMAIN sessions' = DOMAIN sessions /\ \A s \in DOMAIN sessions : sessions'[s] \in [Key -> Nat]
  <2>1. \A s \in DOMAIN sessions : sessions[s] \in [Key -> Nat] BY DEF TypeOK
  <2>2. \A f \in [Key -> Nat] : [f EXCEPT ![k] = 0] \in [Key -> Nat] OBVIOUS
  <2> QED BY <1>1, <2>1, <2>2
<1>4. DOMAIN names' \subseteq Key /\ \A j \in DOMAIN names' : names'[j] \in Name \cup {NoName}
  <2>1. DOMAIN names' = DOMAIN names \ {k} BY <1>1 DEF With, Without
  <2>2. \A j \in DOMAIN names \ {k} : names'[j] = names[j] BY <1>1 DEF With, Without
  <2> QED BY <2>1, <2>2 DEF TypeOK
<1> QED BY <1>1, <1>2, <1>3, <1>4 DEF TypeOK

(* The handlers.                                                           *)
LEMMA GetTyped == ASSUME TypeOK, NEW r \in Request, HandleGet(r) PROVE TypeOK'
<1>0. ASSUME NEW p, Serve(r, p) PROVE up' \in BOOLEAN BY <1>0, AnswersUp DEF Serve
<1>1. up' \in BOOLEAN BY <1>0, AnswersUp DEF HandleGet, HandleAutoindex
<1>2. UNCHANGED <<names, disk, leftover, uploads, latest, spoiled, torn>> BY DEF HandleGet
<1>3. CASE UNCHANGED <<sessions, issued>>
  <2>1. issued' \subseteq Session BY <1>3 DEF TypeOK
  <2> QED BY <1>1, <1>2, <1>3, <2>1, AddingTyped
<1>4. CASE \E s \in Session \ issued :
             sessions' = With(sessions, s, FilesOf(s)) /\ issued' = issued \cup {s}
  <2>1. issued' \subseteq Session BY <1>4 DEF TypeOK
  <2>2. \E t \in Session : sessions' = With(sessions, t, FilesOf(t)) BY <1>4
  <2> QED BY <1>1, <1>2, <2>1, <2>2, AddingTyped
<1> QED BY <1>3, <1>4 DEF HandleGet, SetSecureCookie

(* A listing adds the session it does not find, and the names.             *)
LEMMA ListTyped == ASSUME TypeOK, NEW r \in Request, HandleList(r) PROVE TypeOK'
<1>1. up' \in BOOLEAN BY AnswersUp DEF HandleList
<1>2. UNCHANGED <<disk, history>> BY DEF HandleList
<1>3. CASE UNCHANGED memory BY <1>1, <1>2, <1>3, QuietTyped
<1>4. CASE /\ r.cookie # NoCookie
           /\ sessions' = With(sessions, r.cookie, FilesOf(r.cookie))
           /\ names' = Touched(KeysOf(r.cookie))
  <2>1. r.cookie \in Session BY <1>4, RequestAssumption
  <2>2. \E t \in Session : sessions' = With(sessions, t, FilesOf(t)) BY <1>4, <2>1
  <2>3. KeysOf(r.cookie) \in SUBSET Key BY DEF KeysOf
  <2>4. \E ks \in SUBSET Key : names' = Touched(ks) BY <1>4, <2>3
  <2>5. issued' \subseteq Session BY <1>2 DEF TypeOK, history
  <2>6. UNCHANGED <<disk, leftover, uploads, latest, spoiled, torn>> BY <1>2 DEF history
  <2> QED BY <1>1, <2>2, <2>4, <2>5, <2>6, AddingTyped
<1> QED BY <1>3, <1>4 DEF HandleList

(* A download is answered, whatever the calls in it do.                    *)
LEMMA DownloadAnswers == ASSUME NEW r, NEW k, Download(r, k) PROVE up' = TRUE
BY Zenon DEF Download, Throw, Respond

(* A download touches the name of a key.                                   *)
LEMMA DownloadTyped == ASSUME TypeOK, NEW r \in Request, HandleDownload(r) PROVE TypeOK'
<1> DEFINE k == AsKey(DownloadKey(r))
<1>1. CASE Dies BY <1>1, QuietTyped DEF Dies
<1>2. CASE ~Dies
  <2>1. UNCHANGED <<sessions, disk, history>> BY <1>2 DEF HandleDownload
  <2>2. CASE UNCHANGED names
    <3>1. up' \in BOOLEAN
      BY <1>2, AnswersUp, DownloadAnswers DEF HandleDownload
    <3> QED BY <2>1, <2>2, <3>1, QuietTyped DEF memory
  <2>3. CASE names' = Touched({k}) /\ Owns(r.cookie, k) /\ Download(r, k)
    <3>1. up' \in BOOLEAN BY <2>3, DownloadAnswers
    <3>2. {k} \in SUBSET Key BY <2>3 DEF Owns
    <3>3. \E ks \in SUBSET Key : names' = Touched(ks) BY <2>3, <3>2
    <3>4. issued' \subseteq Session BY <2>1 DEF TypeOK, history
    <3>5. UNCHANGED <<disk, leftover, uploads, latest, spoiled, torn>> BY <2>1 DEF history
    <3> QED BY <2>1, <3>1, <3>3, <3>4, <3>5, AddingTyped
  <2> QED BY <1>2, <2>2, <2>3 DEF HandleDownload
<1> QED BY <1>1, <1>2

(* An upload that is refused, confirmed or fails.                          *)
LEMMA PostTyped == ASSUME TypeOK, NEW r \in Request, HandlePost(r) PROVE TypeOK'
<1>1. CASE PostError(r) # 0 BY <1>1, QuietTyped, AnswersUp DEF HandlePost
<1>2. CASE PostError(r) = 0
  <2>1. r.type = "multipart" /\ ValidSession(r.cookie) BY <1>2 DEF PostError
  <2> DEFINE name == FileName(r.part)
             content == FileContent(r.part)
             k == HashOf[name]
  <2>2. name \in Name /\ k \in Key
    BY <2>1, RequestAssumption, HashAssumption DEF FileName
  <2>3. UploadHashedFile(r, k, name, content) BY <1>2 DEF HandlePost
  <2>4. r.cookie \in DOMAIN sessions BY <2>1 DEF ValidSession
  <2> HIDE DEF name, content, k
  <2>5. names' = With(names, k, name) /\ UNCHANGED issued BY <2>3 DEF UploadHashedFile
  <2>6. CASE \E written : Confirm(r, k, content, written)
    BY <2>2, <2>4, <2>5, <2>6, ConfirmTyped
  <2>7. CASE /\ Throw(r, 500) /\ spoiled' = spoiled \cup {k}
             /\ UNCHANGED <<sessions, disk, leftover, uploads, latest, torn>>
    <3>1. up' \in BOOLEAN BY <2>7, AnswersUp
    <3> QED BY <2>2, <2>5, <2>7, <3>1, FailedTyped
  <2> QED BY <2>3, <2>6, <2>7 DEF UploadHashedFile
<1> QED BY <1>1, <1>2

(* A deletion that is refused, fails or is done.                           *)
LEMMA DeleteTyped == ASSUME TypeOK, NEW r \in Request, HandleDelete(r) PROVE TypeOK'
<1> DEFINE k == DeleteKey(r)
<1>1. up' \in BOOLEAN BY AnswersUp DEF HandleDelete, DeleteFile
<1>2. CASE UNCHANGED <<memory, disk, history>> BY <1>1, <1>2, QuietTyped
<1>3. CASE ~UNCHANGED <<memory, disk, history>>
  <2>1. DeleteError(r) = 0 /\ Removed(r, k) BY <1>3 DEF HandleDelete, DeleteFile
  <2>2. r.cookie \in DOMAIN sessions /\ k \in Key
    BY <2>1 DEF DeleteError, ValidSession, Owns
  <2> HIDE DEF k
  <2> QED BY <1>1, <2>1, <2>2, RemovedTyped
<1> QED BY <1>2, <1>3

(* Every step keeps the types.                                             *)
LEMMA StepTyped == ASSUME TypeOK, [Next]_vars PROVE TypeOK'
<1>1. CASE Restart
  <2>1. DOMAIN sessions' = {} /\ DOMAIN names' = {} /\ DOMAIN latest' = {}
    BY <1>1 DEF Restart, Nothing
  <2> QED BY <1>1, <2>1 DEF Restart, TypeOK
<1>2. ASSUME NEW r \in Request,
             HandleRedirection(r) \/ CheckAllowedMethods(r) \/ NoHandler(r)
      PROVE  TypeOK'
  BY <1>2, QuietTyped, AnswersUp DEF HandleRedirection, CheckAllowedMethods, NoHandler
<1>3. CASE Dies BY <1>3, QuietTyped DEF Dies
<1>4. CASE UNCHANGED vars
  <2>1. up' \in BOOLEAN BY <1>4 DEF TypeOK, vars
  <2> QED BY <1>4, <2>1, QuietTyped DEF vars
<1>5. CASE HandleRequest
  BY <1>2, <1>3, <1>5, GetTyped, ListTyped, DownloadTyped, PostTyped, DeleteTyped
     DEF HandleRequest, Redirections, Forbidden, Gets, ListGets, Downloads, Posts,
         Deletes, Unhandled
<1> QED BY <1>1, <1>4, <1>5 DEF Next

(* Sessions, names and the history hold what they are made for, whatever   *)
(* the configuration, the requests and the file system.                    *)
THEOREM HandlersTyped == Spec => []TypeOK
<1>1. Init => TypeOK
  <2>1. Init => DOMAIN sessions = {} /\ DOMAIN names = {} /\ DOMAIN latest = {} BY DEF Init, Nothing
  <2> QED BY <2>1 DEF Init, TypeOK
<1>2. TypeOK /\ [Next]_vars => TypeOK' BY StepTyped
<1> QED BY <1>1, <1>2, PTL DEF Spec

-----------------------------------------------------------------------------
(* Links                                                                   *)

(* What is uploaded and not deleted is in its session's list.              *)
UploadsListed ==
  \A u \in uploads : u.by \in DOMAIN sessions /\ sessions[u.by][u.key] > 0

(* It stays there as long as the lists that are there do.                  *)
LEMMA UploadsKept ==
  ASSUME UNCHANGED uploads,
         UploadsListed, \A s \in DOMAIN sessions : s \in DOMAIN sessions' /\ sessions'[s] = sessions[s]
  PROVE  UploadsListed'
BY DEF UploadsListed

(* A step that does not upload or delete loses nothing.                    *)
LEMMA AddingListed ==
  ASSUME UploadsListed, UNCHANGED uploads,
         sessions' = sessions \/ \E t : sessions' = With(sessions, t, FilesOf(t))
  PROVE  UploadsListed'
<1>1. \A s \in DOMAIN sessions : s \in DOMAIN sessions' /\ sessions'[s] = sessions[s]
  BY DEF With, FilesOf
<1> QED BY <1>1, UploadsKept

(* An upload lists its key, and takes none out.                            *)
LEMMA ConfirmListed ==
  ASSUME TypeOK, UploadsListed, NEW r, NEW k \in Key, NEW content, NEW written,
         r.cookie \in DOMAIN sessions, Confirm(r, k, content, written)
  PROVE  UploadsListed'
<1>1. /\ sessions' = [sessions EXCEPT ![r.cookie][k] = @ + 1]
      /\ uploads' = uploads \cup {[by |-> r.cookie, key |-> k, at |-> r.path]}
  BY DEF Confirm
<1>2. \A s \in DOMAIN sessions : sessions[s] \in [Key -> Nat] BY DEF TypeOK
<1>3. DOMAIN sessions' = DOMAIN sessions BY <1>1
<1>4. ASSUME NEW s \in DOMAIN sessions, NEW j \in Key
      PROVE  /\ sessions[s][j] > 0 => sessions'[s][j] > 0
             /\ sessions'[r.cookie][k] > 0
  <2>1. PICK f : f = sessions[r.cookie] OBVIOUS
  <2>2. f \in [Key -> Nat] BY <1>2, <2>1
  <2>3. sessions'[r.cookie] = [f EXCEPT ![k] = @ + 1] BY <1>1, <2>1
  <2>4. [f EXCEPT ![k] = @ + 1][k] > 0 /\ (f[j] > 0 => [f EXCEPT ![k] = @ + 1][j] > 0)
    BY <2>2
  <2>5. s # r.cookie => sessions'[s] = sessions[s] BY <1>1
  <2> QED BY <2>1, <2>3, <2>4, <2>5
<1>5. ASSUME NEW u \in uploads' PROVE u.by \in DOMAIN sessions' /\ sessions'[u.by][u.key] > 0
  <2>1. CASE u \in uploads
    <3>1. u.by \in DOMAIN sessions /\ sessions[u.by][u.key] > 0 BY <2>1 DEF UploadsListed
    <3>2. u.key \in Key BY <2>1 DEF TypeOK
    <3> QED BY <1>3, <1>4, <3>1, <3>2
  <2>2. CASE u = [by |-> r.cookie, key |-> k, at |-> r.path]
    <3>1. u.by = r.cookie /\ u.key = k BY <2>2
    <3> QED BY <1>3, <1>4, <3>1
  <2> QED BY <1>1, <2>1, <2>2
<1> QED BY <1>5 DEF UploadsListed

(* A deletion takes out the uploads with their places in the list.         *)
LEMMA RemovedListed ==
  ASSUME TypeOK, UploadsListed, NEW r, NEW k \in Key, r.cookie \in DOMAIN sessions, Removed(r, k)
  PROVE  UploadsListed'
<1>1. /\ sessions' = [sessions EXCEPT ![r.cookie] = [sessions[r.cookie] EXCEPT ![k] = 0]]
      /\ uploads' = {u \in uploads : ~(u.by = r.cookie /\ u.key = k)}
  BY DEF Removed, Unlisted
<1>2. DOMAIN sessions' = DOMAIN sessions BY <1>1
<1>3. ASSUME NEW u \in uploads' PROVE u.by \in DOMAIN sessions' /\ sessions'[u.by][u.key] > 0
  <2>1. u \in uploads /\ ~(u.by = r.cookie /\ u.key = k) BY <1>1
  <2>2. u.by \in DOMAIN sessions /\ sessions[u.by][u.key] > 0 BY <2>1 DEF UploadsListed
  <2>3. u.key \in Key /\ sessions[u.by] \in [Key -> Nat] BY <2>1, <2>2 DEF TypeOK
  <2>4. sessions'[u.by][u.key] = sessions[u.by][u.key]
    <3>1. CASE u.by = r.cookie BY <1>1, <2>1, <2>2, <2>3, <3>1
    <3>2. CASE u.by # r.cookie BY <1>1, <2>2, <3>2
    <3> QED BY <3>1, <3>2
  <2> QED BY <1>2, <2>2, <2>4
<1> QED BY <1>3 DEF UploadsListed

(* Every step keeps uploads listed.                                        *)
LEMMA StepListed == ASSUME TypeOK, UploadsListed, [Next]_vars PROVE UploadsListed'
<1>1. CASE Restart BY <1>1 DEF Restart, UploadsListed
<1>2. CASE UNCHANGED <<uploads, sessions>> BY <1>2, AddingListed
<1>3. CASE UNCHANGED uploads /\ \E t : sessions' = With(sessions, t, FilesOf(t))
  BY <1>3, AddingListed
<1>4. ASSUME NEW r \in Request, HandlePost(r) PROVE UploadsListed'
  <2>1. CASE UNCHANGED <<uploads, sessions>> BY <2>1, AddingListed
  <2>2. CASE ~UNCHANGED <<uploads, sessions>>
    <3> DEFINE name == FileName(r.part)
               content == FileContent(r.part)
               k == HashOf[name]
    <3>1. PostError(r) = 0 /\ UploadHashedFile(r, k, name, content)
      BY <1>4, <2>2 DEF HandlePost, memory, history
    <3>2. r.type = "multipart" /\ ValidSession(r.cookie) BY <3>1 DEF PostError
    <3>3. k \in Key BY <3>2, RequestAssumption, HashAssumption DEF FileName
    <3>4. r.cookie \in DOMAIN sessions BY <3>2 DEF ValidSession
    <3> HIDE DEF name, content, k
    <3>5. \E written : Confirm(r, k, content, written) BY <2>2, <3>1 DEF UploadHashedFile
    <3> QED BY <3>3, <3>4, <3>5, ConfirmListed
  <2> QED BY <2>1, <2>2
<1>5. ASSUME NEW r \in Request, HandleDelete(r) PROVE UploadsListed'
  <2> DEFINE k == DeleteKey(r)
  <2>1. CASE UNCHANGED <<uploads, sessions>> BY <2>1, AddingListed
  <2>2. CASE ~UNCHANGED <<uploads, sessions>>
    <3>1. DeleteError(r) = 0 /\ Removed(r, k)
      BY <1>5, <2>2 DEF HandleDelete, DeleteFile, memory, history
    <3>2. r.cookie \in DOMAIN sessions /\ k \in Key
      BY <3>1 DEF DeleteError, ValidSession, Owns
    <3> HIDE DEF k
    <3> QED BY <3>1, <3>2, RemovedListed
  <2> QED BY <2>1, <2>2
<1>6. ASSUME NEW r \in Request,
             \/ HandleRedirection(r) \/ CheckAllowedMethods(r) \/ NoHandler(r)
             \/ HandleGet(r) \/ HandleList(r) \/ HandleDownload(r)
      PROVE  UploadsListed'
  <2>1. UNCHANGED uploads
    BY <1>6 DEF HandleRedirection, CheckAllowedMethods, NoHandler, HandleGet, HandleList,
                HandleDownload, Dies, history
  <2>2. sessions' = sessions \/ \E t : sessions' = With(sessions, t, FilesOf(t))
    BY <1>6 DEF HandleRedirection, CheckAllowedMethods, NoHandler, HandleGet, HandleList,
                HandleDownload, Dies, memory, SetSecureCookie
  <2> QED BY <2>1, <2>2, AddingListed
<1>7. CASE Dies \/ UNCHANGED vars
  BY <1>2, <1>7 DEF Dies, vars, memory, history
<1>8. CASE HandleRequest
  BY <1>4, <1>5, <1>6, <1>7, <1>8
     DEF HandleRequest, Redirections, Forbidden, Gets, ListGets, Downloads, Posts,
         Deletes, Unhandled
<1> QED BY <1>1, <1>7, <1>8 DEF Next

(* handleDeleteRequest finds the key in the path of the link.              *)
LEMMA LinkKey ==
  ASSUME NEW s, NEW k
  PROVE  LET r == LinkRequest(s, UploadUrl, k) IN
         IsPrefix(DeletePrefix, r.path) /\ r.path # DeletePrefix /\ DeleteKey(r) = k
<1> DEFINE path == UploadUrl \o <<"/", k>>
<1>1. PICK p : p = path OBVIOUS
<1>2. /\ p \in Seq({"/uploads", "/", k}) /\ Len(p) = 3
      /\ p[1] = "/uploads" /\ p[2] = "/" /\ p[3] = k
  BY <1>1 DEF UploadUrl
<1>3. /\ DeletePrefix \in Seq({"/uploads", "/", k}) /\ Len(DeletePrefix) = 2
      /\ DeletePrefix[1] = "/uploads" /\ DeletePrefix[2] = "/"
  BY DEF DeletePrefix
<1>4. IsPrefix(DeletePrefix, p)
  <2>1. \A i \in 1 .. 2 : DeletePrefix[i] = p[i] BY <1>2, <1>3
  <2> QED BY <1>2, <1>3, <2>1 DEF IsPrefix
<1>5. p # DeletePrefix BY <1>2, <1>3
<1>6. AsKey(SubSeq(p, 3, 3)) = k
  <2>1. PICK q : q = SubSeq(p, 3, 3) OBVIOUS
  <2>2. Len(q) = 1 /\ q[1] = k BY <1>2, <2>1
  <2> QED BY <2>1, <2>2 DEF AsKey
<1>7. DeleteKey(LinkRequest(s, UploadUrl, k)) = k
  <2>1. PICK r : r = LinkRequest(s, UploadUrl, k) OBVIOUS
  <2>2. r.path = p BY <1>1, <2>1 DEF LinkRequest
  <2>3. Len(DeletePrefix) + 1 = 3 /\ Len(p) = 3 BY <1>2, <1>3
  <2>4. DeleteKey(r) = AsKey(SubSeq(p, 3, 3)) BY <2>2, <2>3 DEF DeleteKey
  <2> QED BY <1>6, <2>1, <2>4
<1> QED BY <1>1, <1>4, <1>5, <1>7 DEF LinkRequest

(* With one upload directory, and locations that let sessions delete below *)
(* the upload URL, the link of a 201 leads to the file as long as it is on *)
(* disk, whatever other sessions uploaded and deleted.                     *)
THEOREM LinksLeadToFiles ==
  ASSUME NEW dir, Lists \subseteq {dir}, LinksRouted PROVE Spec => []LinksDelete
<1>1. Init => TypeOK /\ UploadsListed
  <2>1. Init => DOMAIN sessions = {} /\ DOMAIN names = {} /\ DOMAIN latest = {} BY DEF Init, Nothing
  <2> QED BY <2>1 DEF Init, TypeOK, UploadsListed
<1>2. (TypeOK /\ UploadsListed) /\ [Next]_vars => (TypeOK /\ UploadsListed)'
  BY StepTyped, StepListed
<1>3. TypeOK /\ UploadsListed => LinksDelete
  <2> SUFFICES ASSUME TypeOK, UploadsListed, NEW u \in uploads, u.at = UploadUrl, Stored(u.key)
               PROVE  LET r == LinkRequest(u.by, u.at, u.key) IN
                      IsDelete(r) /\ DeleteError(r) = 0 /\ Append(Store(r), u.key) \in DOMAIN disk
    BY DEF LinksDelete, LinkRequest
  <2>1. PICK r : r = LinkRequest(u.by, UploadUrl, u.key) OBVIOUS
  <2>2. u.by \in Session /\ u.key \in Key /\ UploadUrl \in Urls BY DEF TypeOK
  <2>3. IsDelete(r) BY <2>1, <2>2 DEF LinksRouted
  <2>4. IsPrefix(DeletePrefix, r.path) /\ r.path # DeletePrefix /\ DeleteKey(r) = u.key
        /\ r.cookie = u.by /\ r.path = UploadUrl \o <<"/", u.key>>
    BY <2>1, LinkKey DEF LinkRequest
  <2>5. u.by \in DOMAIN sessions /\ sessions[u.by][u.key] > 0 BY DEF UploadsListed
  <2>6. ValidSession(u.by) /\ Owns(u.by, u.key)
    BY <2>2, <2>5, SessionAssumption DEF ValidSession, Owns, FilesOf
  <2>7. DeleteError(r) = 0 BY <2>4, <2>6 DEF DeleteError
  <2>8. r.path \in Paths
    <3>1. r.path \in Links(UploadUrl) BY <2>2, <2>4 DEF Links
    <3> QED BY <2>2, <3>1 DEF Paths
  <2>9. Store(r) = dir BY <2>3, <2>8, StoreOfPath DEF IsDelete
  <2>10. Append(dir, u.key) \in DOMAIN disk BY DEF Stored
  <2> QED BY <2>1, <2>3, <2>7, <2>9, <2>10
<1> QED BY <1>1, <1>2, <1>3, PTL DEF Spec

=============================================================================
