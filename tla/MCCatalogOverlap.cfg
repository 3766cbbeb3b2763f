\* Everything at once, from an empty and from a non-empty catalog; a recovery reads it.
SPECIFICATION FairSpec
CONSTANTS
    j1 = j1
    j2 = j2
    j3 = j3
    t1 = t1
    t2 = t2
    Seed = Seed
    Jobs = {j1, j2, j3}
    Preloaded = {FALSE, TRUE}
    Topologies = {t1, t2}
    TopologyOf <- TwoTopologies
    MaxIncrementals = 2
    MaxIngested = 1
    Faults = {"fail", "crash", "overlap", "uncertain", "expiry", "compaction"}
INVARIANTS
    SessionExclusive
    ChainReadable
    ParentsCommitted
PROPERTIES
    FoundStaysFound
    CommittedIsFound
