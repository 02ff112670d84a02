SPECIFICATION Spec
CONSTANT NoKey = NoKey
INVARIANTS
  CountsAreReferences
  
  NodesAreValid
  TableIsSound
  BtreeIsSound
PROPERTIES
  
  ReserveIsKept
VIEW View
