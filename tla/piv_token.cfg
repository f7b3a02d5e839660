SPECIFICATION FairSpec
CONSTANTS
  SeqMod = 3
  Certs = 2
  MaxParts = 3
  MaxAccum = 2
  MaxSlips = 2
  MaxLeft = 1
INVARIANTS
  TypeOK
  OwnAnswer
  WholeObject
  LoginIsVerified
PROPERTIES
  CallReturns
