SPECIFICATION Spec
CONSTANTS
  k1 = k1
  k2 = k2
  k3 = k3
  Keys <- MCKeys
  Values = {1, 2}
  Hash <- Spread
  Addresses <- MCAddresses
  KeyArrMax = 1
  Repeatable = {k3}
  Deletable = {k1, k2}
INVARIANTS TypeOK MemoryExact GetFinds KeysListed
PROPERTIES ImplementsMap
