SPECIFICATION Spec
CONSTANTS
  s1 = s1
  s2 = s2
  n1 = n1
  n2 = n2
  n3 = n3
  h1 = h1
  h2 = h2
  c1 = c1
  Session = {s1, s2}
  NoCookie = NoCookie
  Name = {n1, n2, n3}
  NoName = NoName
  Key = {h1, h2}
  Text = {c1}
  HashOf <- HashTable
  Cut <- CutTable
  Locations <- Blocks
  Server <- TheServer
  Dirs <- TheDirs
  Specials <- TheSpecials
  Unreadable <- TheUnreadable
  Site <- TheSite
  Request <- Requests
  Faults = {"stat", "open", "write", "remove"}
  MaxList = 2
INVARIANTS TypeOK StoredHasOwner ListedIsStored DownloadsAreUploads LinksDelete
PROPERTIES RefusalsChangeNothing
