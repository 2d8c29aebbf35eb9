SPECIFICATION ServicesSpec
CONSTANTS
    c1 = c1  c2 = c2  e1 = e1  e2 = e2  e3 = e3
    n1 = n1  n2 = n2  n3 = n3  p1 = p1  p2 = p2  t1 = t1  t2 = t2  t3 = t3
    x1 = x1  x2 = x2  x3 = x3
    None = None  Unset = Unset  NoEnv = NoEnv
    Threads = {t1, t2}
    Main = t1
    Protocols = {"exchange", "flag"}
    Names = {n1, n2, n3}
    MaxEntries = 2
    NoName = NoName
    NoThread = NoThread
SYMMETRY Symmetry
INVARIANTS
        
    LifecycleOrdered WaitsMeetSets
 
