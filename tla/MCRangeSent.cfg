CONSTANTS
  home = home
  films = films
  old = old
  film = film
  short = short
  text = text
  \* ContentDirectory
  Paths <- MCPaths
  Parent <- MCParent
  Dirs <- MCDirs
  Videos <- MCVideos
  Shared <- MCShared
  Root = Root
  None = None
  Runs <- MCRuns
  Unreadable = Unreadable
  Size <- MCSize
  IntMax = 4
  MaxChanges = 3
  \* MediaLibrary
  Files <- MCFiles
  Kinds <- MCKinds
  Uninitialised <- MCUninitialised
  MaxFiles = 3
  \* Description
  Built <- MCBuilt
  Settings <- MCSettings
  Offered <- MCOffered
  Icons <- MCIcons
  Embedded <- MCEmbedded
  Scpd <- MCScpd
  urlBase <- MCUrlBase
  Tokens <- MCTokens
  Digits = {"80"}
  MaxSettings = 2
  MaxGets = 2
  MaxCalls = 2
  \* Configuration
  Processes = {p1, p2}
  Sections <- MCSections
  Parameters <- MCParameters
  Values = {"1"}
  Stored <- MCStored
  MaxSaves = 2
  \* MainProgram
  Ports = {1, 2}
  PipeSize = 2
  \* StateVariable
  Documents <- MCDocuments
  Texts <- MCTexts
  Number <- MCNumber
  Read <- MCRead
  Foreign <- MCForeign
  SeqMax = 3
  MaxSets = 3
  MaxForeign = 1
  MaxInFlight = 3
  \* EventProxy
  Services = {"s1", "s2"}
  MaxProxies = 2
  MaxRequests = 4
  \* WebFile
  Sizes = {0, 1, 2, 3}
  Ranges <- MCRanges
  Empty = Empty
  Garbage = Garbage
  NoRange = NoRange
  Missing = Missing
  MaxWrites = 1
SPECIFICATION Spec
INVARIANT RangeSent
\* Every part may run out of its bounds and stop.
CHECK_DEADLOCK FALSE
