SPECIFICATION Spec
CONSTANTS
    NumLayers = 2
    MaxSeq = 2
    Tokens = {0, 2}
    VocabSize = 2
    None = None
INVARIANTS AttendsToOwnKeys
