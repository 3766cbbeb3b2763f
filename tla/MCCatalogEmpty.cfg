\* Two Jobs overlap over an empty catalog; nothing fails.
SPECIFICATION Spec
CONSTANTS
    j1 = j1
    j2 = j2
    j3 = j3
    t1 = t1
    t2 = t2
    Seed = Seed
    Jobs = {j1, j2, j3}
    Preloaded = {FALSE}
    Topologies = {t1, t2}
    TopologyOf <- OneTopology
    MaxIncrementals = 1
    MaxIngested = 0
    Faults = {"overlap"}
INVARIANTS
    LeaseExclusive
