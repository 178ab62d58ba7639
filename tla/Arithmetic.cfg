SPECIFICATION Spec
CONSTANTS
  ByteBits = 2
  ShortBits = 3
  WordBits = 4
  LongBits = 8
  Words <- MCWords
  Longs <- MCLongs
  Addresses <- MCAddresses
  Floats <- MCFloats
INVARIANTS
  OrderIsConsistent
  WordsAreExact
  ConversionsCompose
CHECK_DEADLOCK FALSE
