SPECIFICATION ToolsSpec
CONSTANTS
  Servers <- MCServers
  ToolNames <- MCNames
  Ids = {"mcp_edit_file"}
  CatalogId <- MCId
  RemoteName <- MCRemote
  Listings <- MCListings
  MaxConns = 2
  MaxSessions = 2
  MaxLost = 1
  MaxHandlers = 2
  MaxGiven = 1
INVARIANTS
  RunsBounded
  NoneSneaksIn
  ListingFollowsSession
