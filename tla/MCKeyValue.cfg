SPECIFICATION Spec
CONSTANTS
  Namespaces = {"visits", "__platform"}
  Reserved = {"__platform"}
  Keys = {1, 2}
  Kinds = {"nil", "vector", "function"}
  Handlers = {h1, h2}
  PageSize = 1
  MaxCalls = 3
  MaxFailures = 1
SYMMETRY Symmetry
INVARIANTS AnsweredIsListed ListingComplete
PROPERTY ProjectGone
CHECK_DEADLOCK FALSE
