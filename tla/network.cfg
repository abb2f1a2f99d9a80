\* The parts of the network: the presence bridge, the waiting loops, the gateway's routes, the reconciles,
\* and who may do what on a server.
SPECIFICATION NetworkSpec
CONSTANTS
  Parts = {"hub", "paper", "links", "lobby", "entrance", "doors", "access"}
  HubPlayers = {"h"}
  PaperPlayers = {"p"}
  Links = {"c", "d"}
  MaxInbox = 1
  Guests = {"g"}
  Directs = {"c"}
  Targets = {"s", "t"}
  Sleepers = {"s", "t"}
  Barred <- MCBarred
  Misfits <- MCMisfits
  MaxRounds = 2
  Servers = {"p", "f"}
  Portless = {}
  Backends = {"p"}
  Lobby = "p"
  Native <- MCNative
  Clients <- MCClients
  MaxEdits = 1
  TickOrder <- MCTickOrder
  Configs = {"a", "b"}
  MaxSaves = 2
  ListKeys = {"ops"}
  Persons = {"f"}
  FixedOps = {"f"}
  Administrators = {"a"}
  Tries = 1
  MaxCalls = 1
  MaxPlays = 2
CHECK_DEADLOCK FALSE
INVARIANTS
  PaperPresencesAreOwned GuestsDecide NamesLeadRight
PROPERTIES
  PresencesSettle NobodyIsStuck BackendsBehindVelocity  FixedOpsStand
