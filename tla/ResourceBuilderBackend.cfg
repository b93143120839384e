CONSTANTS
  NotNeeded = NotNeeded
  NoImage = NoImage
  NoPort = NoPort
  Image = img
  Hosts = {h1, h2}
  PortNumbers = {80, 81}
  NodePorts = {30080}
  MaxPorts = 2
  MaxHosts = 2
  Letters = {a, b}
  MaxText = 0
SPECIFICATION Spec
INVARIANT DefaultBackendIsServicePort
