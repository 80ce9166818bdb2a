SPECIFICATION ScriptsSpec
CONSTANTS
  Scripts = {1, 2}
  Names = {"q"}
  Contracts <- MCContracts
  Hashes = {x}
  Handlers = {h1, h2}
  MaxRevisions = 3
  MaxCalls = 6
  MaxFailures = 1
  Bundles <- MCBundles
  Extensions = {"json", "kv"}
  Reserved = {"__a"}
  Slashed = {"x/y"}
  Unparsed = {"bad"}
  Expired = {"past"}
  Blank = {""}
  Unset = {"unset"}
  MaxDepth = 4
  MaxCallsOnTrial = 2
SYMMETRY Symmetry
INVARIANT BodiesRunOnce
CHECK_DEADLOCK FALSE
