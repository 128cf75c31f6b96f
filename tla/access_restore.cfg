\* The restore at boot, with detach calls of one caller.
SPECIFICATION FairSpec
CONSTANTS
  e1 = e1 e2 = e2 s1 = s1 d1 = d1 x1 = x1 x2 = x2 x3 = x3 ssh = ssh web = web
  Proc = {p1}
  Boot = Boot
  Service = {s1}
  Endpoint = {e1, e2}
  ServiceOf <- OneService
  Device = {d1}
  DeviceOf <- SameDevice
  Port = {x1, x2}
  Protocol = {ssh, web}
  ProtocolsOf <- AnyProtocol
  NoPort = NoPort NoProtocol = NoProtocol NoRule = NoRule
  NoProc = NoProc NoEndpoint = NoEndpoint
  Operations = {"detach"}
  MayFail = FALSE
PROPERTY SavedAccessesRestored
