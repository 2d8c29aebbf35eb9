SPECIFICATION TablesSpec
CONSTANTS
    x1 = x1  x2 = x2  x3 = x3  x4 = x4  y1 = y1  y2 = y2  y3 = y3  y4 = y4
    empty = empty  unknown = unknown  NoId = NoId
    Threads = {y1, y2}
    Handles = {x1, x2, x3, x4}
    MaxContexts = 3
    Sizes = {1, 3}
    NoHandle = NoHandle
SYMMETRY Symmetry
INVARIANTS TableExact StatsExact DestroySound
PROPERTY VocabularyExact
