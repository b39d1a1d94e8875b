CONSTANTS
  x = x
  c = c
  v = v
  NoSymbol = NoSymbol
  Names <- OneName
  Symbols <- TwoSymbols
  MaxDepth = 3
SPECIFICATION FairSpec
PROPERTY WalkParentChain
