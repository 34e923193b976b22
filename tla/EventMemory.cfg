SPECIFICATION Spec
CONSTANTS
  N = 5
  Null = Null
  MaxOrder = 2
  Bytes = 3
  NumOut = 1
  Programs <- MCPrograms
INVARIANTS
  EachInOnePlace
  Partition
  CarriedByProcessed
  RestoresState
PROPERTY
  ImplementsLists
