SPECIFICATION Spec
CONSTANTS
    w1 = w1  w2 = w2  c1 = c1  c2 = c2  c3 = c3  t1 = t1  t2 = t2  t3 = t3  t4 = t4
    Workers <- TwoWorkers
    Clients <- ThreeClients
    Tasks <- FourTasks
    Capacity = 2
    OwnerSerializes = FALSE
    NoTask = NoTask
SYMMETRY Symmetry
INVARIANTS Fifo Accounting DrainedBeforeFree
PROPERTY WaitSeesAllDone
