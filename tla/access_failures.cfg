\* Every operation, with failing port checks, starts and writes, and restarts at any point.
\* Two callers, one of which begins with the restore the daemon makes when it starts.
SPECIFICATION Spec
CONSTANTS
  e1 = e1 e2 = e2 s1 = s1 d1 = d1 x1 = x1 x2 = x2 x3 = x3 ssh = ssh web = web
  Proc = {p1, p2}
  Boot = p1
  Service = {s1}
  Endpoint = {e1, e2}
  ServiceOf <- OneService
  Device = {d1}
  DeviceOf <- SameDevice
  Port = {x1, x2, x3}
  Protocol = {ssh, web}
  ProtocolsOf <- OwnProtocol
  NoPort = NoPort NoProtocol = NoProtocol NoRule = NoRule
  NoProc = NoProc NoEndpoint = NoEndpoint
  Operations = {"attach", "detach", "forget_service", "forget_device", "refresh", "restore", "restart"}
  MayFail = TRUE
SYMMETRY InterchangeableEndpoints
INVARIANTS OneListenerPerEndpoint ListenerHasRecord DetachNeverFailsSilently ListenerPortsUnique
PROPERTY SavedRecordsSurvive
