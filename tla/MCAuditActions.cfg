SPECIFICATION AuditSpec
CONSTANTS
  IdOrder <- MCIdOrder
  Mal = {"MAL-1", "MAL-2"}
  Cve = {"CVE-1"}
  Record <- MCRecord
  Filed <- MCFiled
  OsvBatch = 3
  Fetchers = 2
  Supported = {"npm", "cargo"}
  Listed <- MCListed
  Scorecards <- MCScorecards
  DepsBatch = 1
  DepsWorkers = 2
  MaxAttempts = 2
  ActionTools <- MCActionTools
  CommandTools <- MCCommandTools
  Subcommands <- MCSubcommands
  Bots <- MCBots
  NodeOrder <- MCNodeOrder
  Runs <- MCRuns
  About <- MCAbout
INVARIANTS ActionAdvisoriesReachTheScore
CHECK_DEADLOCK FALSE
