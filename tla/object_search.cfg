SPECIFICATION ObjSpec
CONSTANTS
  MaxKeys = 2
INVARIANTS
  FoundAll FoundOnce
  TableTypeOK ValueStaysInside AttributesTell
