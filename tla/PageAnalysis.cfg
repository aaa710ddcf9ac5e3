SPECIFICATION Spec
CONSTANTS
  Pages <- MCPages
  MaxSymbols = 3
  IouDedupe = 60
  MaxDistance = 5
  MinConfidence = 50
CHECK_DEADLOCK FALSE
INVARIANTS SuppressionIsSound AssociationIsStable EdgesAreSound NeighboursNest
