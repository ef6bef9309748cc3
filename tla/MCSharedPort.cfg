\* Three transmissions of two frames; one failing opening of the device file.
SPECIFICATION FairSpec
CONSTANTS
  Frames = 2
  MaxRounds = 3
  MaxTicks = 2
  MaxFaults = 2
  MaxAbsent = 1
INVARIANTS
  LeftRunning
PROPERTIES
  SentOneTick
  PortRecovers
