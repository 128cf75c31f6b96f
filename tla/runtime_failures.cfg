\* One caller; whatever can fail does, and the daemon crashes at any point.
\* After two failed removals all identifiers are in use, or the daemon finds two
\* directories with one name and does not start: the system may stop.
SPECIFICATION Spec
CONSTANTS
  w1 = w1 wa = wa x0 = x0 xb = xb d1 = d1 defA = defA defB = defB e1 = e1 e2 = e2
  Proc = {p1}
  Boot = Boot
  Name = {n}
  Manifest = {wa, xb, d1}
  RuntimeOf <- Runtimes
  DefinitionOf <- Definitions
  EndpointsOf <- Exposed
  Endpoint = {e1, e2}
  Id = {i1, i2}
  NoDefinition = NoDefinition NoManifest = NoManifest NoService = NoService
  NoEntry = NoEntry NoDir = NoDir NoId = NoId NoName = NoName
  Operations = {"apply", "start", "stop", "remove", "inspect", "exit", "restart"}
  MayFail = TRUE
SYMMETRY Interchangeable
INVARIANTS NoStrayProcess StoppedStaysStopped ListenersMatchDesired
PROPERTY DefinitionKept
CHECK_DEADLOCK FALSE
