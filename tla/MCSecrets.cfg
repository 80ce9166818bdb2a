SPECIFICATION Spec
CONSTANTS
  Names = {token}
  Handlers = {h1, h2}
  MaxVersions = 3
  MaxRotations = 2
  MaxDeletes = 2
  MaxBuilds = 3
SYMMETRY Symmetry
INVARIANT RunKeepsSecrets
PROPERTY RotationOutlivesDelete
CHECK_DEADLOCK FALSE
