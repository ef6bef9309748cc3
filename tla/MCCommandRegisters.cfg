\* One channel, two slaves, three requests that may follow each other closely.
SPECIFICATION FairSpec
CONSTANTS
  s1 = s1
  s2 = s2
  Slaves = {s1, s2}
  Channels = 1
  Requests <- SmallRequests
  MaxWrites = 3
INVARIANTS
  TypeOK
  KeptUntilExecuted
PROPERTY
  ImplementsMailbox
  KeptIsExecuted
