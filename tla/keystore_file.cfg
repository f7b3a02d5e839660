SPECIFICATION Spec
CONSTANTS
  Libs = {"app"}
  Tools = {"wp11"}
  Keys = {k1, k2}
  Pins = {p1, p2}
  MaxKeys = 2
  MaxInodes = 4
  Exclusive = TRUE
  Faults = {"kill", "power", "io"}
  Torn = Torn
  NoFile = NoFile
  NoPin = NoPin
SYMMETRY Symmetry
INVARIANTS TypeOK NeverPartial NoLostKeys
PROPERTIES FileIsAtomic
