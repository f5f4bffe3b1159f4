\* Two calls that share the pools, with subgraphs side by side and in a loop.
CONSTANTS
  Calls = {"e1", "e2"}
  Given <- MCGiven
  Timed = {"e1"}
  Clusters = {"top", "sub"}
  Vertices = {"s", "t", "w", "b", "x", "y", "z"}
  Names = {"n", "o", "m"}
  Designs <- MCDesigns
  Nesting = 3
  MaxRounds = 3
  MaxCtxs = 6
  None = None
  NoParams = NoParams
SPECIFICATION Spec
INVARIANTS ContextHeld SeesOwnCall LevelsAgree ChildReachable
PROPERTIES NoLateStart
