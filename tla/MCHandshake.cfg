SPECIFICATION Spec
CONSTANTS
  l1 = l1
  l2 = l2
  r1 = r1
  s1 = s1
  s2 = s2
  arg = arg
  src = src
  n1 = n1
  n2 = n2
  Names = {n1, n2}
  Sources = {src, other}
  Versions <- MCVersions
  Sessions = {s1, s2}
  Launches = {l1, l2}
  Runtimes = {r1}
  Capabilities = {certificate}
  Offered = {}
  Arguments <- MCArguments
  Built <- MCBuilt
  MaxChanges = 1
  None = None
SYMMETRY Symmetry
CHECK_DEADLOCK FALSE
INVARIANTS
  HandlerAgrees
  LaunchAccepted
  LaunchServed
