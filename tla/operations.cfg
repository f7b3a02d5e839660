SPECIFICATION Spec
CONSTANTS
  Kinds <- AllKinds
  Types <- AllTypes
  Handles = {"h", "k"}
  MaxPart = 2
  MaxData = 3
INVARIANTS TypeOK DataOnce RetryIsAccepted
PROPERTIES OneShotIsFresh ModesNeverMix
