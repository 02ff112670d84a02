SPECIFICATION Spec
CONSTANTS
  Cords = {1, 2}
  kMaxCapacity = 2
  kMaxHeight = 3
  kMinFlatLength = 1
  kMaxFlatLength = 1
  kMaxInline = 0
  kMaxBytesToCopy = 0
  MaxAppend = 1
  MaxLength = 6
  Calls = {"Append", "AppendCord", "RemoveSuffix", "Buffer"}
INVARIANTS
  SharedEdgesRemain
VIEW View
