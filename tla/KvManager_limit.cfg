SPECIFICATION Spec
CONSTANTS
    Threads = {t1, t2}
    Handles = {h1, h2, h3, h4}
    MaxContexts = 2
    Sizes = {1}
    NoHandle = NoHandle
INVARIANT WithinLimit
