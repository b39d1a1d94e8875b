CONSTANTS
  x = x
  c = c
  v = v
  NoSymbol = NoSymbol
  Names <- OneName
  Symbols <- TwoSymbols
  MaxDepth = 6
SPECIFICATION FairSpec
INVARIANTS TypeOK DanglingBelowGrowth
PROPERTIES LookupExactInReach WarmIsLexical LookupReturns
