\* Two slots and three connections under the fairness of the event loops.
SPECIFICATION FairSpec
CONSTANTS
  MaxConnections = 2
  MaxAccepts = 3
INVARIANTS
  TypeOK
  CleanSession
  LeakOnlyByOverlap
PROPERTIES
  RefusalIsTemporary
  CleanIsServed
