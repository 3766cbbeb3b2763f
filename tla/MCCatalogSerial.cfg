\* One Job after the other over an empty and a non-empty catalog; requests fail, pods
\* are killed, sessions expire, the cleaner runs.
SPECIFICATION Spec
CONSTANTS
    j1 = j1
    j2 = j2
    j3 = j3
    t1 = t1
    t2 = t2
    Seed = Seed
    Jobs = {j1, j2, j3}
    Preloaded = {FALSE, TRUE}
    Topologies = {t1, t2}
    TopologyOf <- OneTopology
    MaxIncrementals = 1
    MaxIngested = 1
    Faults = {"fail", "crash", "compaction", "expiry"}
INVARIANTS
    TypeOK
PROPERTIES
    SerializesPublication
