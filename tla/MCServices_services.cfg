SPECIFICATION FairSpec
CONSTANTS
  Expressions <- MCExpressions
  Clocks <- MCClocks
  Delays <- MCDelays
  East = TRUE
  MaxDepth = 20
  MaxJobs = 2
  Tokens <- MCTokens
  Parsed <- MCParsed
  Formatted <- MCFormatted
  Large = 100
  Hex <- MCHex
  Utf8 <- MCUtf8
  Controls <- MCControls
  LowerCase <- MCLower
  Texts <- MCTexts
  Items <- MCItems
  Names <- MCNames
  MaxNesting = 4
  MaxEdits = 2
  Ports <- MCPorts
  Hosts <- MCHosts
  Urls <- MCUrls
  RECV_BUF = 2
  Rooms = {2, 4, 9}
  BUFSIZ = 2
  MaxRedirects = 2
  MaxDownloads = 2
  Era = 64
  JAN_1970 = 33
  Starts = {26}
  Offsets <- MCOffsets
  Replies <- MCReplies
  MaxSyncs = 2
  MaxReplies = 2
  Clients = {1, 2, 3}
  None = None
  Sockets = {5, 6}
  MaxTogether = 2
  MaxSends = 2
INVARIANTS TriggerIsNext StampIsLast RoundTrip PrintFits  SetFromServer AloneAsSent
PROPERTIES SyncEnds AloneIsServed
CHECK_DEADLOCK FALSE
