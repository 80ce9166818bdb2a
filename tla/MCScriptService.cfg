SPECIFICATION ScriptsSpec
CONSTANTS
  Scripts = {1, 2}
  Names = {"q"}
  Contracts <- MCContracts
  Hashes = {x}
  Handlers = {h1, h2}
  MaxRevisions = 3
  MaxCalls = 5
  MaxFailures = 1
  Bundles <- MCBundles
  Extensions = {"json", "kv"}
  Reserved = {"__a"}
  Slashed = {"x/y"}
  Unparsed = {"bad"}
  Expired = {"past"}
  Blank = {""}
  Unset = {"unset"}
  MaxDepth = 4
  MaxCallsOnTrial = 2
SYMMETRY Symmetry
INVARIANTS CurrentResolves OneOwner ContractIsCode
PROPERTY SealedAfterBoot
CHECK_DEADLOCK FALSE
