SPECIFICATION Spec
CONSTANTS
  Skeletons <- MCSkeletons
  Types = {"i32", "i64", "f16"}
  OperandTypes = {"i32", "i64"}
  SigParams <- MCSigParams
  ReturnTypes = {"i32"}
  CalleesOf <- MCCalleesOf
  MaxReaders = 1
  MaxDefiners = 1
  MaxReads <- MCMaxReads
  MaxResults = 1
INVARIANTS
  IInv
  NoPanic
  DefsDominateUses
  ConditionsLive
  EdgesMatchParams
  TableIsCurrent
  DominatorsFirst
  SignaturesKept
