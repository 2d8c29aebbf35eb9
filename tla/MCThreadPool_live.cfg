SPECIFICATION FairSpec
CONSTANTS
    w1 = w1  w2 = w2  c1 = c1  c2 = c2  c3 = c3  t1 = t1  t2 = t2  t3 = t3  t4 = t4
    Workers <- TwoWorkers
    Clients <- TwoClients
    Tasks <- ThreeTasks
    Capacity = 1
    OwnerSerializes = TRUE
    NoTask = NoTask
PROPERTIES ImplementsTaskQueue CallsReturn
