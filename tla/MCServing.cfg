CONSTANTS
  a = a
  b = b
  a1 = a1
  a2 = a2
  b1 = b1
  s1 = s1
  s2 = s2
  q1 = q1
  q2 = q2
  c1 = c1
  c2 = c2
  Sessions = {s1, s2}
  Calls = {c1, c2}
  SESSION_TTL = 2
  MaxPuts = 2
  MaxDeletes = 1
  MaxLost = 1
  Scripts = {a, b}
  Revisions = {a1, a2, b1}
  ScriptOf <- MCScriptOf
  Created <- MCCreated
  CronEvents <- MCCronEvents
  Requests = {q1, q2}
  None = None
  POINTER_TTL = 1
  DEADLINE = 1
  Scenes <- MCScenes
SYMMETRY Symmetric
SPECIFICATION Spec
INVARIANTS ServedFresh ServesOwn CronsArmed SessionsIndexed
CHECK_DEADLOCK FALSE
