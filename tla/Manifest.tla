----------------------------- MODULE Manifest ------------------------------
(***************************************************************************)
(* The rules of a manifest: what checkpoint() makes of a connector's       *)
(* KeeperMap rows and Connect offsets, and what validate_manifest and      *)
(* validate_chain, written independently of it, accept (backup.rs).        *)
(*                                                                         *)
(* A key is a topic and a partition, <<topic, partition>>; how it is       *)
(* spelled in KeeperMap is left out. A row has a key, a range and a state, *)
(* a Kafka offset a key and an offset; ranges and offsets are u64 and must *)
(* fit the i64 of the Kafka client. Names, paths and identifiers that      *)
(* validate_manifest checks for their characters are left out.             *)
(***************************************************************************)
EXTENDS Integers, Sequences

CONSTANT MaxSigned  \* i64::MAX

ASSUME WidthAssumption == MaxSigned \in Nat

MaxUnsigned == 2 * MaxSigned + 1
Unsigned == 0 .. MaxUnsigned

\* u64 addition of one.
Successor(n) == IF n = MaxUnsigned THEN 0 ELSE n + 1

UniqueKeys(entries) == \A a, b \in entries : a.key = b.key => a = b

\* A connector's partitions, in the order its offsets are listed.
KeyAt(c, i) == <<c.topic, i - 1>>
KeysOf(c) == {KeyAt(c, i) : i \in 1 .. c.partitions}

\* Mutant of Sound: a row of any size passes.
SoundUnbounded(row) == row.state = "AFTER_PROCESSING" /\ row.min <= row.max

\* A finished row with a range, whose end leaves room for checked_add.
Sound(row) ==
    /\ row.state = "AFTER_PROCESSING"
    /\ row.min <= row.max
    /\ row.max <= MaxSigned

\* maxOffset + 1, or 0 for a partition without a row.
ExactOffset(rows, key) ==
    IF \E row \in rows : row.key = key
    THEN Successor((CHOOSE row \in rows : row.key = key).max)
    ELSE 0

-----------------------------------------------------------------------------
\* Mutant of CheckpointAccepts: the key of an observed offset is not compared.
CheckpointAcceptsAnyObserved(pipeline, observed, rows) ==
    /\ UniqueKeys(observed) /\ UniqueKeys(rows)
    /\ \A row \in rows : Sound(row) /\ row.key \in KeysOf(pipeline)
    /\ \A o \in observed : o.key \in KeysOf(pipeline) => o.offset <= ExactOffset(rows, o.key)

\* checkpoint() does not bail.
CheckpointAccepts(pipeline, observed, rows) ==
    /\ UniqueKeys(observed) /\ UniqueKeys(rows)
    /\ \A row \in rows : Sound(row) /\ row.key \in KeysOf(pipeline)
    /\ \A o \in observed : o.key \in KeysOf(pipeline) /\ o.offset <= ExactOffset(rows, o.key)

\* What it returns.
Checkpoint(pipeline, observed, rows) ==
    [name |-> pipeline.connector, table |-> pipeline.table,
     topic |-> pipeline.topic, partitions |-> pipeline.partitions,
     offsets |-> [i \in 1 .. pipeline.partitions |->
                    [key |-> KeyAt(pipeline, i),
                     offset |-> ExactOffset(rows, KeyAt(pipeline, i))]],
     observed |-> observed, rows |-> rows]

\* validate_manifest, one connector.
ConnectorAccepted(c) ==
    /\ c.partitions > 0 /\ Len(c.offsets) = c.partitions
    /\ UniqueKeys(c.observed) /\ UniqueKeys(c.rows)
    /\ \A row \in c.rows : Sound(row)
    /\ \A o \in c.observed : o.key \in KeysOf(c)
    /\ \A i \in DOMAIN c.offsets :
          /\ c.offsets[i].key = KeyAt(c, i)
          /\ c.offsets[i].offset = ExactOffset(c.rows, KeyAt(c, i))
          /\ \A o \in c.observed : o.key = KeyAt(c, i) => o.offset <= c.offsets[i].offset
    /\ \A row \in c.rows : \E i \in DOMAIN c.offsets : row.key = c.offsets[i].key

\* validate_manifest of a manifest's connectors.
ManifestAccepted(connectors) ==
    /\ connectors # <<>>
    /\ \A i, k \in DOMAIN connectors : connectors[i].name = connectors[k].name => i = k
    /\ \A i \in DOMAIN connectors : ConnectorAccepted(connectors[i])

\* No offset behind the parent's.
NotBehind(connectors, parent) ==
    \A i \in DOMAIN connectors : \E k \in DOMAIN parent :
        /\ parent[k].name = connectors[i].name
        /\ \A j \in DOMAIN connectors[i].offsets \cap DOMAIN parent[k].offsets :
              connectors[i].offsets[j].offset >= parent[k].offsets[j].offset

\* Exactly the configured connectors.
AsConfigured(connectors, pipelines) ==
    /\ Len(connectors) = Len(pipelines)
    /\ \A n \in DOMAIN pipelines : \E i \in DOMAIN connectors :
          /\ connectors[i].name = pipelines[n].connector
          /\ connectors[i].topic = pipelines[n].topic
          /\ connectors[i].partitions = pipelines[n].partitions

\* validate_chain of a chain's manifests, here the full backup's first.
ChainAccepted(chain, pipelines) ==
    \A b \in DOMAIN chain :
        /\ ManifestAccepted(chain[b])
        /\ AsConfigured(chain[b], pipelines)
        /\ b > 1 => NotBehind(chain[b], chain[b - 1])
=============================================================================
