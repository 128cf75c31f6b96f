\* Two callers use one service; the daemon crashes at any point.
SPECIFICATION Spec
CONSTANTS
  w1 = w1 wa = wa x0 = x0 xb = xb d1 = d1 defA = defA defB = defB e1 = e1 e2 = e2
  Proc = {p1, p2}
  Boot = Boot
  Name = {n}
  Manifest = {w1, x0}
  RuntimeOf <- Runtimes
  DefinitionOf <- Definitions
  EndpointsOf <- Exposed
  Endpoint = {e1, e2}
  Id = {i1, i2, i3}
  NoDefinition = NoDefinition NoManifest = NoManifest NoService = NoService
  NoEntry = NoEntry NoDir = NoDir NoId = NoId NoName = NoName
  Operations = {"apply", "start", "stop", "remove", "inspect", "restart"}
  MayFail = FALSE
SYMMETRY Interchangeable
INVARIANT AlwaysLoadable
