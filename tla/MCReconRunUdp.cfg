CONSTANTS
  Ports <- MCPorts
  Situations <- MCSituations
  Intents <- MCIntents
SPECIFICATION Spec
INVARIANT UdpIsScanned
