SPECIFICATION ProgressSpec
CONSTANTS
    Prompts = {0, 1, 2, 4}
    MaxNew = 2
    NumStages = 2
    w1 = w1  w2 = w2  c1 = c1  c2 = c2
    NoThread = NoThread
INVARIANTS  CursorFollowsTokens CancelStopsWork
  
