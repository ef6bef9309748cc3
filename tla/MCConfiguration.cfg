\* Every document of three channels.  The parser stops when it has finished.
SPECIFICATION Spec
CONSTANTS
  Documents <- SmallDocuments
  Unset = Unset
INVARIANTS
  TypeOK
  SensorsInOrder
  IdsFaithful
  NamesResolve
  GroupsAgree
  CoefficientsAreOwn
CHECK_DEADLOCK FALSE
