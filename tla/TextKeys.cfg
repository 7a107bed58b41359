CONSTANTS
  Clients = {"c1"}
  Surfaces = {"s1"}
  ClientOf <- OneClient
  Inputs = {1}
  OwnerOf <- OnlyOwner
  Keys = {"k"}
  OtherKey = "m"
  Unfiltered = {"press", "release"}
  StartsAgain = TRUE
  TakesBack = TRUE
  ChunkLimit = 5
  Budgets <- OneKey
SPECIFICATION TextSpec
CHECK_DEADLOCK FALSE
INVARIANTS
  RenamedKeyReleased
