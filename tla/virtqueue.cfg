CONSTANTS
  Size = 2
  Modulus = 4
  Kinds = {"good", "refused", "broken"}
SPECIFICATION FairSpec
INVARIANTS ChainsAccounted
PROPERTIES
  ImplementsQueue
  ChainsReturn
