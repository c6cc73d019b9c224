SPECIFICATION WalkSpec
CONSTANTS
  a = a  b = b  d = d  e = e  t = t  g = g
  any = any  exact2 = exact2  bad = bad
  Package = {a, b, d, e, t, g}
  Spec = {any, exact2, bad, ""}
  Scope = {"prod", "dev"}
  Version = {1, 2}
  Worker = {w1, w2}
  Root = Root  Unparsed = Unparsed  NoVersion = NoVersion  NoReq = NoReq
  NumFiles = 2
  Manifest <- MCManifest
  Resolvable = {a, b, d, e, g}
  Schemed = {a, b, d, e, t}
  Listed <- MCListed
  Published <- MCPublished
  AllowedBy <- MCAllowedBy
  BadSpec = {bad}
  ExactOf <- MCExactOf
  Requires <- MCRequires
  Pins <- MCPins
  Mode = "latest"
  MaxVersions = 2
  MaxDepth = 2
  MaxNodes = 11
  AsOf = 1
  Flaky = {a, d}
  Deadline = TRUE
INVARIANTS GraphConnected NothingForgotten ReasonsTruthful AsOfHonest
PROPERTIES NodeBound
