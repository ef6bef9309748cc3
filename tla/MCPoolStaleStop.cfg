\* One slot, two connections: a stopSlave event outlives its session.
SPECIFICATION Spec
CONSTANTS
  MaxConnections = 1
  MaxAccepts = 2
PROPERTY
  DisconnectIsReal
