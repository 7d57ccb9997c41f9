CONSTANTS
    t1 = t1
    t2 = t2
    t3 = t3
    Threads <- MCThreads
    Threshold = 2
SPECIFICATION Spec
PROPERTY OpenUntilCooled
