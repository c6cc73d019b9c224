SPECIFICATION WalkSpec
CONSTANTS
  a = a  b = b  c = c  any = any  only1 = only1  only2 = only2
  Package = {a, b, c}
  Spec = {any, only1, only2, ""}
  Scope = {"prod", "dev"}
  Version = {1, 2}
  Worker = {w1, w2, w3}
  Root = Root  Unparsed = Unparsed  NoVersion = NoVersion  NoReq = NoReq
  NumFiles = 1
  Manifest <- MCManifest
  Resolvable = {a, b, c}
  Schemed = {a, b, c}
  Listed <- MCListed
  Published <- MCPublished
  AllowedBy <- MCAllowedBy
  BadSpec = {}
  ExactOf <- MCExactOf
  Requires <- MCRequires
  Pins <- MCPins
  Mode = "all"
  MaxVersions = 2
  MaxDepth = 3
  MaxNodes = 100
  AsOf = 0
  Flaky = {c}
  Deadline = TRUE
INVARIANTS ClosureExact ReadOnce EdgesJustified
PROPERTIES KnowledgeOnlyGrows Terminates
