SPECIFICATION MCSpec
CONSTANTS
  Size = 10
  Few = 5
  Nodes <- MCNodes
  KeyOf <- MCKeyOf
  Queries <- MCQueries
  Nil <- MCNil
  Top <- MCTop
INVARIANTS TypeOK Linked RedBlack Ordered WalksReachAll
PROPERTIES ImplementsBag QueryFinds OperationsEnd
