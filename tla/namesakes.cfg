\* A transfer that also takes a datapack both worlds have.
SPECIFICATION OfficeSpec
CONSTANTS
  Sections = {"transfer"}
  Projects = {"a", "b", "c", "v"}
  Versions = {1, 2}
  Requires <- MCRequires
  Misfits <- MCMisfits
  Packs = {"v"}
  Before = {"a", "v"}
  FileOf <- MCFileOf
  Wanted <- MCWanted
  HandFiles <- MCHandFiles
  Knows <- MCKnows
  Enabled = {"modrinth", "curseforge", "vanillatweaks"}
  MaxDepth = 2
  Pages = {"t"}
  MaxRows = 6
  MaxRequests = 2
  Faults = {"network", "locked", "unreadable"}
  Previews = {k1, k2}
  Installers = {i1, i2}
  NoPreview = NoPreview
  Clerks = {c1, c2}
  Bases = {"n", "m"}
  Ports = {1, 2, 3, 4, 5}
  Front = 3
  Forms <- MCForms
  MaxServers = 4
  MaxTasks = 2
  Users = {"u", "w"}
  Desks = {d1, d2}
  Limit = 1
  Budget = 2
  Estimates = {2}
  MaxRounds = 2
  MaxBookings = 2
  Owners = {"s", "t"}
  Triggers = {"daily", "hourly", "today"}
  Once = {"today"}
  Hands = {h1, h2}
  MaxJobs = 3
  MaxOrders = 3
  Layouts <- MCLayouts
  Ticks <- MCTicks
  Oddities = {"two_states", "late_inventory", "inner_data", "end_in_nether", "nether_in_end", "dragon", "unknown", "packs", "leftover", "paper_rules", "former_shells", "unclear_login", "unnamed"}
  MaxOddities = 1
  Players = {"p"}
  Majors = {17, 21}
  Elsewhere = {own}
  Unscanned = {}
  Keepers = {"s"}
  Others = {"v"}
  Visitors = {"page"}
  Need <- MCNeed
  MaxProfiles = 3
  MaxEdits = 1
  ListKeys = {"ops"}
  Persons = {"f"}
  FixedOps = {"f"}
  Administrators = {}
  Tries = 1
  MaxCalls = 0
  MaxPlays = 0
  Captures = {}
  ServerPacks = {"r"}
  Hitches = {"locked", "raises", "ends"}
  MaxWishes = 2
  Programs = {"forge", "legacy", "neoforge", "spigot"}
  MaxAttempts = 3
  MaxStarts = 4
  Accountants = {"m", "u", "w"}
  Initial = "m"
  Counters = {n1, n2}
  MaxChanges = 4
CHECK_DEADLOCK FALSE
PROPERTIES NamesakesDoNotStop


