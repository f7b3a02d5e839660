SPECIFICATION Spec
CONSTANTS
  SeqMod = 3
  Certs = 1
  MaxParts = 1
  MaxAccum = 1
  MaxSlips = 1
  MaxLeft = 1
INVARIANTS
  ReopenResyncs
