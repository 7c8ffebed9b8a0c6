CONSTANTS
  Elements <- MCElements
  ArrayOf <- MCArrayOf
  Values <- MCValues
  Zero = 0
  Exprs <- MCExprs
  Sat <- MCSat
  Reads <- MCReads
  Neg <- MCNeg
  Smaller <- MCSmaller
  Queries <- MCQueries
  OptionSets <- MCOptionSets
  MaxCalls = 3
  ExprOrder <- MCExprOrder
  RangeWidth = 3
SPECIFICATION Spec
INVARIANTS
  AnswersAreRight
  CachesAreSound
  AlgorithmsAreExact
CHECK_DEADLOCK FALSE
