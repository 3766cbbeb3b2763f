------------------------ MODULE OffsetHandoverProofs ------------------------
(***************************************************************************)
(* Proofs about OffsetHandover, for every set of pipelines, every length   *)
(* of a log and every width of an offset: whatever KeeperMap and Connect   *)
(* report, a published offset is exact, and what a Job captures and        *)
(* publishes is valid for everybody who reads it later.                    *)
(***************************************************************************)
EXTENDS OffsetHandover, SequenceTheorems, TLAPS

-----------------------------------------------------------------------------
(* checkpoint() and validate_manifest.                                       *)

\* A row that is accepted derives the offset after it, without wrapping around.
LEMMA SoundOffset ==
    ASSUME NEW rows, UniqueKeys(rows), NEW row \in rows, row.max \in Nat, Sound(row)
    PROVE  ExactOffset(rows, row.key) = row.max + 1
<1>1. (CHOOSE r \in rows : r.key = row.key) = row
    BY DEF UniqueKeys
<1>2. ExactOffset(rows, row.key) = Successor(row.max)
    BY <1>1, Zenon DEF ExactOffset
<1> QED
    BY <1>2, WidthAssumption DEF Successor, MaxUnsigned, Sound

\* What checkpoint() returns is a connector validate_manifest accepts, for every
\* pipeline, every set of rows and every set of observed offsets.
THEOREM CheckpointIsAccepted ==
    ASSUME NEW pipeline, pipeline.partitions \in Nat \ {0}, NEW observations, NEW rows,
           CheckpointAccepts(pipeline, observations, rows)
    PROVE  ConnectorAccepted(Checkpoint(pipeline, observations, rows))
<1> DEFINE c == Checkpoint(pipeline, observations, rows)
<1>1. /\ c.topic = pipeline.topic /\ c.partitions = pipeline.partitions
      /\ c.observed = observations /\ c.rows = rows
    BY DEF Checkpoint
<1>2. c.offsets = [i \in 1 .. pipeline.partitions |->
                     [key |-> KeyAt(pipeline, i),
                      offset |-> ExactOffset(rows, KeyAt(pipeline, i))]]
    BY DEF Checkpoint
<1>3. DOMAIN c.offsets = 1 .. pipeline.partitions /\ Len(c.offsets) = pipeline.partitions
    BY <1>2
<1>4. \A i \in 1 .. pipeline.partitions :
          /\ KeyAt(c, i) = KeyAt(pipeline, i)
          /\ c.offsets[i].key = KeyAt(pipeline, i)
          /\ c.offsets[i].offset = ExactOffset(rows, KeyAt(pipeline, i))
    BY <1>1, <1>2 DEF KeyAt
<1>5. KeysOf(c) = KeysOf(pipeline)
    BY <1>1, <1>4 DEF KeysOf
<1>6. \A row \in rows : \E i \in 1 .. pipeline.partitions : row.key = c.offsets[i].key
    BY <1>4 DEF CheckpointAccepts, KeysOf
<1> HIDE DEF c
<1>7. \A o \in c.observed : o.key \in KeysOf(c)
    BY <1>1, <1>5 DEF CheckpointAccepts
<1>8. ASSUME NEW i \in DOMAIN c.offsets
      PROVE  /\ c.offsets[i].key = KeyAt(c, i)
             /\ c.offsets[i].offset = ExactOffset(c.rows, KeyAt(c, i))
             /\ \A o \in c.observed : o.key = KeyAt(c, i) => o.offset <= c.offsets[i].offset
    BY <1>1, <1>3, <1>4 DEF CheckpointAccepts
<1>9. /\ UniqueKeys(c.observed) /\ UniqueKeys(c.rows)
      /\ \A row \in c.rows : Sound(row)
    BY <1>1 DEF CheckpointAccepts
<1>10. ConnectorAccepted(c)
    BY <1>1, <1>3, <1>6, <1>7, <1>8, <1>9 DEF ConnectorAccepted
<1> QED
    BY <1>10 DEF c

-----------------------------------------------------------------------------
(* The sink.                                                                 *)

\* The partitions pipeline n has or may get, and those of no other.
OwnKeys(n) == KeysOf(Grown(Pipelines[n]))

LEMMA KeysAreOwn ==
    /\ \A n \in Indexes : OwnKeys(n) \subseteq Keys /\ KeysOf(Pipelines[n]) \subseteq OwnKeys(n)
    /\ \A n, m \in Indexes : n # m => OwnKeys(n) \cap OwnKeys(m) = {}
<1>1. ASSUME NEW n \in Indexes PROVE KeysOf(Pipelines[n]) \subseteq OwnKeys(n)
    BY PipelineAssumption DEF OwnKeys, KeysOf, KeyAt, Grown
<1>2. ASSUME NEW n \in Indexes, NEW key \in OwnKeys(n) PROVE key[1] = Pipelines[n].topic
    BY DEF OwnKeys, KeysOf, KeyAt, Grown
<1>3. \A n, m \in Indexes : n # m => Pipelines[n].topic # Pipelines[m].topic
    BY PipelineAssumption
<1> QED
    BY <1>1, <1>2, <1>3 DEF OwnKeys, Keys

\* What the sink, Connect and Kafka keep has its type.
SinkTypes ==
    /\ held \in [Keys -> Nat]
    /\ low \in [Keys -> Nat]
    /\ DOMAIN keeper = Indexes /\ DOMAIN observed = Indexes
    /\ \A n \in Indexes :
          /\ UniqueKeys(keeper[n]) /\ UniqueKeys(observed[n])
          /\ \A row \in keeper[n] : row.min \in Nat /\ row.max \in Nat
          /\ \A o \in observed[n] : o.offset \in Nat
    /\ DOMAIN count = Indexes
    /\ \A n \in Indexes : count[n] \in {Pipelines[n].partitions, Pipelines[n].partitions + 1}

\* A row that a put has written says what the table holds of its partition, or will
\* hold once the put is done; a partition without one is empty, or its row was lost
\* when Connect knew its end.
RowInv ==
    \A n \in Indexes :
        /\ \A row \in keeper[n] : Sane(row) =>
              /\ row.key \in OwnKeys(n)
              /\ held[row.key] <= row.max + 1
              /\ row.state = "AFTER_PROCESSING" => held[row.key] = row.max + 1
        /\ \A key \in OwnKeys(n) : ~Has(keeper[n], key) =>
              \/ held[key] = 0
              \/ \E o \in observed[n] : o.key = key /\ o.offset = held[key]

SinkInv == SinkTypes /\ RowInv

\* With keeps keys apart and replaces no entry of another key.
LEMMA WithUnique ==
    ASSUME NEW entries, UniqueKeys(entries), NEW entry
    PROVE  /\ UniqueKeys(With(entries, entry))
           /\ entry \in With(entries, entry)
           /\ \A e \in With(entries, entry) : e = entry \/ (e \in entries /\ e.key # entry.key)
           /\ \A e \in entries : e.key # entry.key => e \in With(entries, entry)
           /\ \A key : Has(entries, key) => Has(With(entries, entry), key)
    BY DEF UniqueKeys, With, Has

\* An entry is found by its key.
LEMMA FoundByKey ==
    ASSUME NEW entries, UniqueKeys(entries), NEW entry \in entries
    PROVE  At(entries, entry.key) = entry
    BY DEF At, UniqueKeys

\* The sink goes on where a partition's records end, or after them where its row
\* is unfinished.
LEMMA PositionIsHeld ==
    ASSUME SinkInv, NEW n \in Indexes, NEW key \in OwnKeys(n),
           Has(keeper[n], key) => Sane(At(keeper[n], key))
                                  /\ At(keeper[n], key).state = "AFTER_PROCESSING"
    PROVE  /\ Position(keeper[n], observed[n], key) \in Nat
           /\ held[key] <= Position(keeper[n], observed[n], key)
<1> USE DEF SinkInv, SinkTypes
<1>0. held[key] \in Nat
    BY KeysAreOwn
<1>1. CASE Has(keeper[n], key)
  <2>1. PICK row \in keeper[n] : row.key = key
    BY <1>1 DEF Has
  <2>2. At(keeper[n], key) = row
    BY <2>1, FoundByKey
  <2>3. Sane(row) /\ row.state = "AFTER_PROCESSING"
    BY <1>1, <2>2
  <2>4. LogEnd[key] \in 0 .. MaxSigned
    BY KeysAreOwn, BoundAssumption
  <2>5. Sound(row)
    BY <2>1, <2>3, <2>4, WidthAssumption DEF Sound, Sane
  <2>6. ExactOffset(keeper[n], key) = row.max + 1
    BY <2>1, <2>5, SoundOffset
  <2>7. held[key] = row.max + 1
    BY <2>1, <2>3 DEF RowInv
  <2> QED
    BY <1>0, <1>1, <2>6, <2>7 DEF Position
<1>2. CASE ~Has(keeper[n], key) /\ Has(observed[n], key)
  <2>1. PICK o \in observed[n] : o.key = key
    BY <1>2 DEF Has
  <2>2. At(observed[n], key) = o
    BY <2>1, FoundByKey
  <2>3. held[key] = 0 \/ held[key] = o.offset
    BY <1>2, <2>1 DEF RowInv, UniqueKeys
  <2> QED
    BY <1>0, <1>2, <2>1, <2>2, <2>3 DEF Position
<1>3. CASE ~Has(keeper[n], key) /\ ~Has(observed[n], key)
    BY <1>0, <1>3 DEF Position, RowInv, Has
<1> QED
    BY <1>1, <1>2, <1>3

\* The rest of the system is not the sink's.
LEMMA SinkInvKept ==
    ASSUME SinkInv, UNCHANGED <<sinkVars, kafkaVars>> PROVE SinkInv'
    BY DEF SinkInv, SinkTypes, RowInv, Sane, sinkVars, kafkaVars

\* A put moves a partition and its row together.
LEMMA PutKeeps ==
    ASSUME SinkInv, NEW n \in Indexes, NEW key \in OwnKeys(n), NEW row, row.key = key,
           row.min \in Nat, row.max \in Nat, Sane(row),
           keeper' = [keeper EXCEPT ![n] = With(@, row)],
           UNCHANGED <<observed, kafkaVars>>,
           \/ held' = [held EXCEPT ![key] = row.max + 1]
           \/ held' = held /\ row.state # "AFTER_PROCESSING",
           held[key] <= row.max + 1
    PROVE  SinkInv' /\ \A k \in Keys : held[k] <= held'[k]
<1> USE DEF SinkInv, SinkTypes
<1>1. keeper'[n] = With(keeper[n], row) /\ DOMAIN keeper' = Indexes
      /\ \A m \in Indexes : m # n => keeper'[m] = keeper[m]
    OBVIOUS
<1>2. /\ held' \in [Keys -> Nat]
      /\ \A k \in Keys : k # key => held'[k] = held[k]
      /\ held'[key] \in {held[key], row.max + 1}
      /\ row.state = "AFTER_PROCESSING" => held'[key] = row.max + 1
    BY KeysAreOwn
<1>3. \A k \in Keys : held[k] <= held'[k]
    BY <1>2
<1>4. SinkTypes'
  <2>1. ASSUME NEW m \in Indexes
        PROVE  UniqueKeys(keeper'[m]) /\ \A r \in keeper'[m] : r.min \in Nat /\ r.max \in Nat
    <3>1. CASE m = n
      BY <1>1, <3>1, WithUnique
    <3>2. CASE m # n
      BY <1>1, <3>2
    <3> QED
      BY <3>1, <3>2
  <2> QED
    BY <1>1, <1>2, <2>1 DEF kafkaVars
<1>5. ASSUME NEW m \in Indexes, NEW r \in keeper'[m], Sane(r)
      PROVE  /\ r.key \in OwnKeys(m)
             /\ held'[r.key] <= r.max + 1
             /\ r.state = "AFTER_PROCESSING" => held'[r.key] = r.max + 1
  <2>1. CASE m = n /\ r = row
    BY <1>2, <2>1, KeysAreOwn
  <2>2. CASE m = n /\ r # row
    <3>1. r \in keeper[n] /\ r.key # key
      BY <1>1, <2>2, WithUnique
    <3> QED
      BY <1>2, <1>5, <2>2, <3>1, KeysAreOwn DEF RowInv
  <2>3. CASE m # n
    <3>1. r \in keeper[m] /\ r.key \in OwnKeys(m)
      BY <1>1, <1>5, <2>3 DEF RowInv
    <3>2. r.key # key /\ r.key \in Keys
      BY <2>3, <3>1, KeysAreOwn
    <3> QED
      BY <1>2, <1>5, <3>1, <3>2 DEF RowInv
  <2> QED
    BY <2>1, <2>2, <2>3
<1>6. ASSUME NEW m \in Indexes, NEW k \in OwnKeys(m), ~Has(keeper'[m], k)
      PROVE  \/ held'[k] = 0
             \/ \E o \in observed'[m] : o.key = k /\ o.offset = held'[k]
  <2>1. ~Has(keeper[m], k)
    BY <1>1, <1>6, WithUnique
  <2>2. k # key
    <3>1. CASE m = n
      BY <1>1, <1>6, <3>1, WithUnique DEF Has
    <3>2. CASE m # n
      BY <3>2, KeysAreOwn
    <3> QED
      BY <3>1, <3>2
  <2> QED
    BY <1>2, <2>1, <2>2, KeysAreOwn DEF RowInv
<1>7. RowInv'
    BY <1>5, <1>6 DEF RowInv, Sane
<1> QED
    BY <1>3, <1>4, <1>7

\* No record leaves the source table.
Grows == \A k \in Keys : held[k] <= held'[k]

LEMMA GrowsUnchanged == SinkInv /\ held' = held => Grows
    BY DEF SinkInv, SinkTypes, Grows

LEMMA KeysNowAreOwn ==
    ASSUME SinkInv, NEW n \in Indexes PROVE KeysNow(n) \subseteq OwnKeys(n)
<1>1. count[n] \in {Pipelines[n].partitions, Pipelines[n].partitions + 1}
    BY DEF SinkInv, SinkTypes
<1> QED
    BY <1>1, PipelineAssumption DEF KeysNow, OwnKeys, KeysOf, KeyAt, Grown

\* A put, whether or not it fails.
LEMMA PutNext ==
    ASSUME SinkInv, NEW n \in Indexes, NEW key \in KeysNow(n), NEW last \in 0 .. MaxSigned,
           Put(n, key, last)
    PROVE  SinkInv' /\ Grows
<1> DEFINE start == Position(keeper[n], observed[n], key)
<1>1. key \in OwnKeys(n)
    BY KeysNowAreOwn
<1>2. key \in Keys /\ LogEnd[key] \in 0 .. MaxSigned /\ held[key] \in Nat
    BY <1>1, KeysAreOwn, BoundAssumption DEF SinkInv, SinkTypes
<1>3. start \in Nat /\ held[key] <= start
    BY <1>1, PositionIsHeld DEF Put
<1>4. last >= start /\ last < LogEnd[key]
    BY DEF Put
<1>5. PICK state \in {"AFTER_PROCESSING"}
                      \cup (IF "put" \in Faults THEN {"BEFORE_PROCESSING"} ELSE {}) :
          /\ keeper' = [keeper EXCEPT ![n] =
                With(@, [key |-> key, min |-> start, max |-> last, state |-> state])]
          /\ \/ held' = [held EXCEPT ![key] = last + 1]
             \/ state = "BEFORE_PROCESSING" /\ UNCHANGED held
    BY DEF Put
<1> DEFINE row == [key |-> key, min |-> start, max |-> last, state |-> state]
<1> HIDE DEF start
<1>6. /\ row.key = key /\ row.min \in Nat /\ row.max \in Nat /\ row.max = last
      /\ row.state = state /\ Sane(row)
    BY <1>2, <1>3, <1>4 DEF Sane
<1>7. held[key] <= row.max + 1
    BY <1>2, <1>3, <1>4, <1>6
<1>8. keeper' = [keeper EXCEPT ![n] = With(@, row)]
    BY <1>5
<1>9. \/ held' = [held EXCEPT ![key] = row.max + 1]
      \/ held' = held /\ row.state # "AFTER_PROCESSING"
    BY <1>5, <1>6
<1>10. UNCHANGED <<observed, kafkaVars>>
    BY DEF Put
<1> HIDE DEF row
<1> QED
    BY <1>1, <1>6, <1>7, <1>8, <1>9, <1>10, PutKeeps DEF Grows

\* A put is repeated.
LEMMA PutAgainNext ==
    ASSUME SinkInv, NEW n \in Indexes, NEW old \in keeper[n], PutAgain(n, old)
    PROVE  SinkInv' /\ Grows
<1> DEFINE row == [old EXCEPT !.state = "AFTER_PROCESSING"]
<1>1. /\ old.key \in OwnKeys(n) /\ old.min \in Nat /\ old.max \in Nat
      /\ held[old.key] <= old.max + 1
    BY DEF PutAgain, SinkInv, SinkTypes, RowInv
<1>2. row.key = old.key /\ row.min = old.min /\ row.max = old.max
    OBVIOUS
<1>3. Sane(row)
    BY <1>2 DEF PutAgain, Sane
<1>4. /\ keeper' = [keeper EXCEPT ![n] = With(@, row)]
      /\ held' = [held EXCEPT ![row.key] = row.max + 1]
      /\ UNCHANGED <<observed, kafkaVars>>
    BY <1>2 DEF PutAgain
<1> HIDE DEF row
<1> QED
    BY <1>1, <1>2, <1>3, <1>4, PutKeeps DEF Grows

\* Connect commits the end of a row.
LEMMA CommitNext ==
    ASSUME SinkInv, NEW n \in Indexes, NEW row \in keeper[n], CommitOffset(n, row)
    PROVE  SinkInv'
<1> USE DEF SinkInv, SinkTypes
<1> DEFINE o == [key |-> row.key, offset |-> row.max + 1]
<1>1. /\ observed'[n] = With(observed[n], o) /\ DOMAIN observed' = Indexes
      /\ \A m \in Indexes : m # n => observed'[m] = observed[m]
      /\ UNCHANGED <<held, keeper, low, count>>
    BY DEF CommitOffset, kafkaVars
<1>2. o.key = row.key /\ o.offset \in Nat
    OBVIOUS
<1> HIDE DEF o
<1>w. /\ UniqueKeys(observed'[n]) /\ o \in observed'[n]
      /\ \A e \in observed'[n] : e = o \/ e \in observed[n]
      /\ \A e \in observed[n] : e.key # o.key => e \in observed'[n]
  <2> DEFINE old == observed[n]
  <2>1. UniqueKeys(old)
    OBVIOUS
  <2>2. observed'[n] = With(old, o)
    BY <1>1
  <2> HIDE DEF old
  <2>3. /\ UniqueKeys(With(old, o)) /\ o \in With(old, o)
        /\ \A e \in With(old, o) : e = o \/ e \in old
        /\ \A e \in old : e.key # o.key => e \in With(old, o)
    BY <2>1, WithUnique
  <2> QED
    BY <2>2, <2>3 DEF old
<1>3. ASSUME NEW m \in Indexes
      PROVE  UniqueKeys(observed'[m]) /\ \A e \in observed'[m] : e.offset \in Nat
  <2>1. CASE m = n
    BY <1>2, <1>w, <2>1
  <2>2. CASE m # n
    BY <1>1, <2>2
  <2> QED
    BY <2>1, <2>2
<1>4. SinkTypes'
    BY <1>1, <1>3
<1>5. ASSUME NEW m \in Indexes, NEW key \in OwnKeys(m), ~Has(keeper[m], key), held[key] # 0
      PROVE  \E e \in observed'[m] : e.key = key /\ e.offset = held[key]
  <2>1. PICK e \in observed[m] : e.key = key /\ e.offset = held[key]
    BY <1>5 DEF RowInv
  <2>2. CASE m = n
    <3>1. o.key # key
      BY <1>2, <1>5, <2>2 DEF Has
    <3> QED
      BY <1>w, <2>1, <2>2, <3>1
  <2>3. CASE m # n
    BY <1>1, <2>1, <2>3
  <2> QED
    BY <2>2, <2>3
<1>6. RowInv'
    BY <1>1, <1>5 DEF RowInv, Sane
<1> QED
    BY <1>4, <1>6

\* A row that is no put's takes the place of another.
LEMMA OddRowNext ==
    ASSUME SinkInv, NEW n \in Indexes, NEW row \in OddRows, OddRow(n, row)
    PROVE  SinkInv'
<1> USE DEF SinkInv, SinkTypes
<1>1. /\ keeper'[n] = With(keeper[n], row) /\ DOMAIN keeper' = Indexes
      /\ \A m \in Indexes : m # n => keeper'[m] = keeper[m]
      /\ UNCHANGED <<held, observed, low, count>>
    BY DEF OddRow, kafkaVars
<1>w. /\ UniqueKeys(keeper'[n])
      /\ \A r \in keeper'[n] : r = row \/ r \in keeper[n]
      /\ \A key : Has(keeper[n], key) => Has(keeper'[n], key)
  <2> DEFINE old == keeper[n]
  <2>1. UniqueKeys(old)
    OBVIOUS
  <2>2. keeper'[n] = With(old, row)
    BY <1>1
  <2> HIDE DEF old
  <2>3. /\ UniqueKeys(With(old, row))
        /\ \A r \in With(old, row) : r = row \/ r \in old
        /\ \A key : Has(old, key) => Has(With(old, row), key)
    BY <2>1, WithUnique
  <2> QED
    BY <2>2, <2>3 DEF old
<1>2. row.min \in Nat /\ row.max \in Nat /\ ~Sane(row)
    BY OddRowAssumption, WidthAssumption DEF Unsigned, MaxUnsigned
<1>3. ASSUME NEW m \in Indexes
      PROVE  /\ UniqueKeys(keeper'[m])
             /\ \A r \in keeper'[m] : r.min \in Nat /\ r.max \in Nat
             /\ \A r \in keeper'[m] : Sane(r) => r \in keeper[m]
             /\ \A key : Has(keeper[m], key) => Has(keeper'[m], key)
  <2>1. CASE m = n
    BY <1>2, <1>w, <2>1
  <2>2. CASE m # n
    BY <1>1, <2>2
  <2> QED
    BY <2>1, <2>2
<1>4. SinkTypes'
    BY <1>1, <1>3
<1>5. RowInv'
    BY <1>1, <1>3 DEF RowInv, Sane
<1> QED
    BY <1>4, <1>5

\* A row is lost whose end Connect has committed.
LEMMA LoseRowNext ==
    ASSUME SinkInv, NEW n \in Indexes, NEW row \in keeper[n], LoseRow(n, row)
    PROVE  SinkInv'
<1> USE DEF SinkInv, SinkTypes
<1>1. /\ keeper'[n] = keeper[n] \ {row} /\ DOMAIN keeper' = Indexes
      /\ \A m \in Indexes : m # n => keeper'[m] = keeper[m]
      /\ UNCHANGED <<held, observed, low, count>>
    BY DEF LoseRow, kafkaVars
<1>2. \A m \in Indexes : keeper'[m] \subseteq keeper[m]
    BY <1>1
<1>3. SinkTypes'
    BY <1>1, <1>2 DEF UniqueKeys
<1>4. PICK o \in observed[n] : o.key = row.key /\ o.offset = held[row.key]
  <2>1. held[row.key] = row.max + 1
    BY DEF LoseRow, RowInv
  <2> QED
    BY <2>1 DEF LoseRow
<1>5. ASSUME NEW m \in Indexes, NEW key \in OwnKeys(m), ~Has(keeper'[m], key), held[key] # 0
      PROVE  \E e \in observed[m] : e.key = key /\ e.offset = held[key]
  <2>1. CASE ~Has(keeper[m], key)
    BY <1>5, <2>1 DEF RowInv
  <2>2. CASE Has(keeper[m], key)
    <3>1. m = n /\ row.key = key
      BY <1>1, <1>5, <2>2 DEF Has
    <3> QED
      BY <1>4, <3>1
  <2> QED
    BY <2>1, <2>2
<1>6. RowInv'
    BY <1>1, <1>2, <1>5 DEF RowInv, Sane
<1> QED
    BY <1>3, <1>6

\* Every step of the sink and of Kafka keeps the relation of rows and records.
LEMMA SourceNext ==
    ASSUME SinkInv, Source PROVE SinkInv' /\ Grows
<1>1. ASSUME NEW n \in Indexes, NEW row \in keeper[n], CommitOffset(n, row) \/ LoseRow(n, row)
      PROVE  SinkInv' /\ Grows
    BY <1>1, CommitNext, LoseRowNext, GrowsUnchanged DEF CommitOffset, LoseRow
<1>2. ASSUME NEW n \in Indexes, NEW row \in OddRows, OddRow(n, row) PROVE SinkInv' /\ Grows
    BY <1>2, OddRowNext, GrowsUnchanged DEF OddRow
<1>3. ASSUME NEW n \in Indexes, Grow(n) PROVE SinkInv' /\ Grows
  <2>1. UNCHANGED <<held, keeper, observed, low>>
    BY <1>3 DEF Grow, sinkVars
  <2>2. DOMAIN count' = Indexes /\ \A m \in Indexes :
            count'[m] \in {Pipelines[m].partitions, Pipelines[m].partitions + 1}
    BY <1>3 DEF Grow, SinkInv, SinkTypes
  <2> QED
    BY <2>1, <2>2, GrowsUnchanged DEF SinkInv, SinkTypes, RowInv, Sane
<1>4. ASSUME NEW key \in Keys, Trim(key) PROVE SinkInv' /\ Grows
  <2>1. UNCHANGED <<held, keeper, observed, count>> /\ low' \in [Keys -> Nat]
    BY <1>4 DEF Trim, sinkVars, SinkInv, SinkTypes
  <2> QED
    BY <2>1, GrowsUnchanged DEF SinkInv, SinkTypes, RowInv, Sane
<1> QED
    BY <1>1, <1>2, <1>3, <1>4, PutNext, PutAgainNext DEF Source, Sink

-----------------------------------------------------------------------------
(* The Job.                                                                  *)

\* A list of connectors that is what checkpoint() makes of every pipeline.
Captures(connectors) ==
    /\ DOMAIN connectors = Indexes /\ Len(connectors) = Len(Pipelines)
    /\ \A n \in Indexes :
          LET c == connectors[n]
          IN  CheckpointAccepts(Pipelines[n], c.observed, c.rows)
              /\ c = Checkpoint(Pipelines[n], c.observed, c.rows)

\* The partitions of pipeline n, by their places in a checkpoint.
Places(n) == 1 .. Pipelines[n].partitions

Exact(connectors, records) ==
    \A n \in Indexes : \A i \in Places(n) :
        connectors[n].offsets[i].offset = records[KeyAt(Pipelines[n], i)]

\* ... unless the offset is after the end of the log, which require_offsets_replayable
\* finds out before anything is published.
ExactInLog(connectors, records) ==
    \A n \in Indexes : \A i \in Places(n) :
        LET key == KeyAt(Pipelines[n], i)
            offset == connectors[n].offsets[i].offset
        IN  offset <= LogEnd[key] => offset = records[key]

Below(records, others) == \A k \in Keys : records[k] <= others[k]

IsSeq(s) == s \in Seq({s[b] : b \in DOMAIN s})

JobInv ==
    /\ archive \in [Keys -> Nat] /\ Below(archive, held)
    /\ captured # <<>> =>
          /\ Captures(captured) /\ ExactInLog(captured, archive)
          /\ \A b \in DOMAIN backups : Below(backups[b].archive, archive)
    /\ IsSeq(backups)
    /\ \A b \in DOMAIN backups :
          /\ Captures(backups[b].connectors) /\ Exact(backups[b].connectors, backups[b].archive)
          /\ backups[b].archive \in [Keys -> Nat] /\ Below(backups[b].archive, held)
    /\ \A a, b \in DOMAIN backups : a < b => Below(backups[a].archive, backups[b].archive)

\* A sequence remains one, and its elements where they were.
LEMMA Appended ==
    ASSUME NEW s, IsSeq(s), NEW e
    PROVE  /\ IsSeq(Append(s, e))
           /\ DOMAIN s = 1 .. Len(s) /\ Len(s) \in Nat
           /\ DOMAIN Append(s, e) = 1 .. Len(s) + 1
           /\ \A b \in DOMAIN s : Append(s, e)[b] = s[b]
           /\ Append(s, e)[Len(s) + 1] = e
<1> DEFINE S == {s[b] : b \in DOMAIN s} \cup {e}
<1>1. s \in Seq(S)
    BY DEF IsSeq
<1>2. e \in S
    OBVIOUS
<1> HIDE DEF S
<1>3. DOMAIN s = 1 .. Len(s) /\ Len(s) \in Nat
    BY <1>1
<1>4. /\ Append(s, e) \in Seq(S) /\ Len(Append(s, e)) = Len(s) + 1
      /\ \A i \in 1 .. Len(s) : Append(s, e)[i] = s[i]
      /\ Append(s, e)[Len(s) + 1] = e
    BY <1>1, <1>2, AppendProperties
<1>5. DOMAIN Append(s, e) = 1 .. Len(s) + 1
    BY <1>4
<1>6. \A T, t : t \in Seq(T) => t \in Seq({t[b] : b \in DOMAIN t})
    OBVIOUS
<1>7. IsSeq(Append(s, e))
    BY <1>4, <1>6 DEF IsSeq
<1> QED
    BY <1>3, <1>4, <1>5, <1>7

\* Where a checkpoint lists a partition.
LEMMA PlacesOfCheckpoint ==
    ASSUME NEW connectors, Captures(connectors), NEW n \in Indexes
    PROVE  /\ connectors[n].name = Pipelines[n].connector
           /\ connectors[n].topic = Pipelines[n].topic
           /\ connectors[n].partitions = Pipelines[n].partitions
           /\ DOMAIN connectors[n].offsets = Places(n)
           /\ \A i \in Places(n) :
                 /\ connectors[n].offsets[i].key = KeyAt(Pipelines[n], i)
                 /\ KeyAt(Pipelines[n], i) \in Keys
                 /\ KeyAt(Pipelines[n], i) \in KeysOf(Pipelines[n])
<1> DEFINE c == connectors[n]
<1>1. c = Checkpoint(Pipelines[n], c.observed, c.rows)
    BY DEF Captures
<1> HIDE DEF c
<1>2. /\ c.name = Pipelines[n].connector
      /\ c.topic = Pipelines[n].topic
      /\ c.partitions = Pipelines[n].partitions
  <2> DEFINE rows == c.rows
             observations == c.observed
  <2>1. c = Checkpoint(Pipelines[n], observations, rows)
    BY <1>1
  <2> HIDE DEF rows, observations
  <2> QED
    BY <2>1 DEF Checkpoint
<1>4. /\ DOMAIN c.offsets = Places(n)
      /\ \A i \in Places(n) : c.offsets[i].key = KeyAt(Pipelines[n], i)
  <2> DEFINE rows == c.rows
             observations == c.observed
  <2>1. c = Checkpoint(Pipelines[n], observations, rows)
    BY <1>1
  <2> HIDE DEF rows, observations
  <2>2. c.offsets = [i \in 1 .. Pipelines[n].partitions |->
                       [key |-> KeyAt(Pipelines[n], i),
                        offset |-> ExactOffset(rows, KeyAt(Pipelines[n], i))]]
    BY <2>1 DEF Checkpoint
  <2> QED
    BY <2>2 DEF Places
<1>3. \A i \in Places(n) : KeyAt(Pipelines[n], i) \in KeysOf(Pipelines[n])
    BY DEF Places, KeysOf
<1> QED
    BY <1>2, <1>3, <1>4, KeysAreOwn DEF c

\* What is captured is accepted as a manifest, with the connectors that are configured.
LEMMA CapturesAccepted ==
    ASSUME NEW connectors, Captures(connectors)
    PROVE  ManifestAccepted(connectors) /\ AsConfigured(connectors, Pipelines)
<1>1. connectors # <<>>
    BY PipelineAssumption DEF Captures
<1>2. ASSUME NEW i \in DOMAIN connectors, NEW k \in DOMAIN connectors,
             connectors[i].name = connectors[k].name
      PROVE  i = k
  <2>1. Pipelines[i].connector = Pipelines[k].connector
    BY <1>2, PlacesOfCheckpoint DEF Captures
  <2> QED
    BY <2>1, PipelineAssumption DEF Captures
<1>3. ASSUME NEW i \in DOMAIN connectors PROVE ConnectorAccepted(connectors[i])
  <2>1. /\ Pipelines[i].partitions \in Nat \ {0}
        /\ CheckpointAccepts(Pipelines[i], connectors[i].observed, connectors[i].rows)
        /\ connectors[i] = Checkpoint(Pipelines[i], connectors[i].observed, connectors[i].rows)
    BY PipelineAssumption DEF Captures
  <2> QED
    BY <2>1, CheckpointIsAccepted
<1>4. AsConfigured(connectors, Pipelines)
  <2>1. \A n \in Indexes :
            /\ n \in DOMAIN connectors
            /\ connectors[n].name = Pipelines[n].connector
            /\ connectors[n].topic = Pipelines[n].topic
            /\ connectors[n].partitions = Pipelines[n].partitions
    BY PlacesOfCheckpoint DEF Captures
  <2> QED
    BY <2>1 DEF AsConfigured, Captures, Indexes
<1> QED
    BY <1>1, <1>2, <1>3, <1>4 DEF ManifestAccepted

\* A catalog of such manifests, with archives that only grow, is a valid chain.
LEMMA CatalogAccepted ==
    ASSUME JobInv PROVE ChainStaysValid
<1> DEFINE chain == [b \in DOMAIN backups |-> backups[b].connectors]
<1>1. DOMAIN chain = DOMAIN backups /\ \A b \in DOMAIN backups : chain[b] = backups[b].connectors
    OBVIOUS
<1>2. DOMAIN backups = 1 .. Len(backups) /\ Len(backups) \in Nat
    BY Appended DEF JobInv
<1>3. \A b \in DOMAIN backups :
          ManifestAccepted(backups[b].connectors) /\ AsConfigured(backups[b].connectors, Pipelines)
    BY CapturesAccepted DEF JobInv
<1>4. ASSUME NEW b \in DOMAIN backups, b > 1
      PROVE  NotBehind(backups[b].connectors, backups[b - 1].connectors)
  <2>1. b - 1 \in DOMAIN backups /\ b - 1 < b
    BY <1>2, <1>4
  <2> DEFINE child == backups[b].connectors
             parent == backups[b - 1].connectors
  <2>2. /\ Captures(child) /\ Exact(child, backups[b].archive)
        /\ Captures(parent) /\ Exact(parent, backups[b - 1].archive)
        /\ backups[b].archive \in [Keys -> Nat] /\ backups[b - 1].archive \in [Keys -> Nat]
        /\ Below(backups[b - 1].archive, backups[b].archive)
    BY <2>1 DEF JobInv
  <2> HIDE DEF child, parent
  <2>3. ASSUME NEW n \in DOMAIN child
        PROVE  /\ n \in DOMAIN parent /\ parent[n].name = child[n].name
               /\ \A i \in DOMAIN child[n].offsets \cap DOMAIN parent[n].offsets :
                     child[n].offsets[i].offset >= parent[n].offsets[i].offset
    <3>1. n \in Indexes /\ n \in DOMAIN parent
      BY <2>2 DEF Captures
    <3>2. /\ parent[n].name = child[n].name
          /\ DOMAIN child[n].offsets = Places(n) /\ DOMAIN parent[n].offsets = Places(n)
          /\ \A i \in Places(n) : KeyAt(Pipelines[n], i) \in Keys
      BY <2>2, <3>1, PlacesOfCheckpoint
    <3>3. ASSUME NEW i \in Places(n)
          PROVE  child[n].offsets[i].offset >= parent[n].offsets[i].offset
      <4> DEFINE key == KeyAt(Pipelines[n], i)
      <4>1. /\ child[n].offsets[i].offset = backups[b].archive[key]
            /\ parent[n].offsets[i].offset = backups[b - 1].archive[key]
        BY <2>2, <3>1 DEF Exact
      <4>2. key \in Keys
        BY <3>2
      <4> HIDE DEF key
      <4>3. /\ backups[b].archive[key] \in Nat /\ backups[b - 1].archive[key] \in Nat
            /\ backups[b - 1].archive[key] <= backups[b].archive[key]
        BY <2>2, <4>2 DEF Below
      <4> QED
        BY <4>1, <4>3
    <3> QED
      BY <3>1, <3>2, <3>3
  <2>4. NotBehind(child, parent)
    BY <2>3 DEF NotBehind
  <2> QED
    BY <2>4 DEF child, parent
<1> HIDE DEF chain
<1>5. ASSUME NEW b \in DOMAIN chain, b > 1 PROVE NotBehind(chain[b], chain[b - 1])
  <2>1. b \in DOMAIN backups /\ b - 1 \in DOMAIN backups
    BY <1>1, <1>2, <1>5
  <2> QED
    BY <1>1, <1>4, <1>5, <2>1
<1>6. ChainAccepted(chain, Pipelines)
    BY <1>1, <1>3, <1>5 DEF ChainAccepted
<1> QED
    BY <1>6 DEF ChainStaysValid, chain

\* What is captured is exact, or after the end of the log: a row no put has written
\* ends there if it is sound, and a lost one makes Connect's offset greater.
LEMMA CaptureIsExact ==
    ASSUME SinkInv, NEW n \in Indexes, NEW key \in KeysOf(Pipelines[n]),
           CheckpointAccepts(Pipelines[n], observed[n], keeper[n])
    PROVE  /\ ExactOffset(keeper[n], key) \in Nat
           /\ \/ ExactOffset(keeper[n], key) = held[key]
              \/ ExactOffset(keeper[n], key) > LogEnd[key]
<1>1. /\ key \in OwnKeys(n) /\ held[key] \in Nat /\ LogEnd[key] \in 0 .. MaxSigned
    BY KeysAreOwn, BoundAssumption DEF SinkInv, SinkTypes
<1>2. ASSUME NEW row \in keeper[n], row.key = key
      PROVE  /\ ExactOffset(keeper[n], key) \in Nat
             /\ \/ ExactOffset(keeper[n], key) = held[key]
                \/ ExactOffset(keeper[n], key) > LogEnd[key]
  <2>1. Sound(row)
    BY DEF CheckpointAccepts
  <2>2. UniqueKeys(keeper[n]) /\ row.max \in Nat
    BY DEF SinkInv, SinkTypes
  <2>3. ExactOffset(keeper[n], key) = row.max + 1
    BY <1>2, <2>1, <2>2, SoundOffset
  <2>4. CASE Sane(row)
    <3>1. held[key] = row.max + 1
      BY <1>2, <2>1, <2>4 DEF SinkInv, RowInv, Sound
    <3> QED
      BY <2>2, <2>3, <3>1
  <2>5. CASE ~Sane(row)
    <3>1. ~(row.max < LogEnd[key])
      BY <1>1, <1>2, <2>1, <2>5, KeysAreOwn DEF Sane, Sound
    <3> QED
      BY <1>1, <2>2, <2>3, <3>1
  <2> QED
    BY <2>4, <2>5
<1>3. CASE ~Has(keeper[n], key)
  <2>1. ExactOffset(keeper[n], key) = 0
    BY <1>3 DEF ExactOffset, Has
  <2>2. ASSUME NEW o \in observed[n], o.key = key, o.offset = held[key] PROVE held[key] = 0
    <3>1. o.offset <= ExactOffset(keeper[n], o.key)
      BY DEF CheckpointAccepts
    <3> QED
      BY <1>1, <2>1, <2>2, <3>1
  <2>3. held[key] = 0
    BY <1>1, <1>3, <2>2 DEF SinkInv, RowInv
  <2> QED
    BY <2>1, <2>3
<1> QED
    BY <1>2, <1>3 DEF Has

LEMMA CaptureNext ==
    ASSUME SinkInv, JobInv, Capture PROVE JobInv'
<1>1. /\ DOMAIN captured' = Indexes /\ Len(captured') = Len(Pipelines)
      /\ \A n \in Indexes : captured'[n] = Checkpoint(Pipelines[n], observed[n], keeper[n])
    BY PipelineAssumption DEF Capture
<1>2. /\ archive' = held /\ held' = held /\ backups' = backups
      /\ \A n \in Indexes : CheckpointAccepts(Pipelines[n], observed[n], keeper[n])
      /\ held \in [Keys -> Nat]
    BY DEF Capture, sinkVars, SinkInv, SinkTypes
<1>3. ASSUME NEW n \in Indexes
      PROVE  /\ captured'[n].observed = observed[n] /\ captured'[n].rows = keeper[n]
             /\ \A i \in Places(n) : captured'[n].offsets[i].offset
                                       = ExactOffset(keeper[n], KeyAt(Pipelines[n], i))
  <2> DEFINE c == captured'[n]
  <2>1. c = Checkpoint(Pipelines[n], observed[n], keeper[n])
    BY <1>1
  <2> HIDE DEF c
  <2>2. /\ c.observed = observed[n] /\ c.rows = keeper[n]
        /\ \A i \in Places(n) : c.offsets[i].offset = ExactOffset(keeper[n], KeyAt(Pipelines[n], i))
    BY <2>1 DEF Checkpoint, Places
  <2> QED
    BY <2>2 DEF c
<1>4. Captures(captured')
    BY <1>1, <1>2, <1>3 DEF Captures
<1>5. ASSUME NEW n \in Indexes, NEW i \in Places(n),
             captured'[n].offsets[i].offset <= LogEnd[KeyAt(Pipelines[n], i)]
      PROVE  captured'[n].offsets[i].offset = held[KeyAt(Pipelines[n], i)]
  <2> DEFINE key == KeyAt(Pipelines[n], i)
             offset == captured'[n].offsets[i].offset
  <2>1. key \in KeysOf(Pipelines[n])
    BY DEF Places, KeysOf
  <2>2. offset = ExactOffset(keeper[n], key)
    BY <1>3
  <2>3. offset <= LogEnd[key]
    BY <1>5
  <2>4. LogEnd[key] \in Nat /\ held[key] \in Nat
    BY <1>2, <2>1, KeysAreOwn, BoundAssumption
  <2> HIDE DEF key, offset
  <2>5. offset \in Nat /\ (offset = held[key] \/ offset > LogEnd[key])
    BY <1>2, <2>1, <2>2, CaptureIsExact
  <2>6. offset = held[key]
    BY <2>2, <2>3, <2>4, <2>5
  <2> QED
    BY <2>6 DEF key, offset
<1>6. ExactInLog(captured', held)
    BY <1>5 DEF ExactInLog
<1>7. Below(held, held)
    BY <1>2 DEF Below
<1>8. IsSeq(backups)'
    BY <1>2 DEF JobInv, IsSeq
<1> QED
    BY <1>2, <1>4, <1>6, <1>7, <1>8 DEF JobInv

\* A Job that ends leaves nothing captured.
LEMMA EndsClean ==
    ASSUME SinkInv, JobInv, JobEnds
    PROVE  captured' = <<>> /\ archive' \in [Keys -> Nat] /\ Below(archive', held)
    BY DEF JobEnds, Nothing, Below, SinkInv, SinkTypes

LEMMA CheckNext ==
    ASSUME SinkInv, JobInv, Check PROVE JobInv'
<1>1. held' = held /\ backups' = backups
    BY DEF Check, sinkVars
<1>2. IsSeq(backups)'
    BY <1>1 DEF JobInv, IsSeq
<1>3. CASE UNCHANGED <<captured, archive>>
    BY <1>1, <1>2, <1>3 DEF JobInv
<1>4. CASE JobEnds
    BY <1>1, <1>2, <1>4, EndsClean DEF JobInv
<1> QED
    BY <1>3, <1>4 DEF Check

LEMMA PublishNext ==
    ASSUME SinkInv, JobInv, Publish PROVE JobInv'
<1>1. /\ held' = held
      /\ captured' = <<>> /\ archive' \in [Keys -> Nat] /\ Below(archive', held)
    BY EndsClean DEF Publish, sinkVars
<1>2. CASE backups' = backups
  <2>1. IsSeq(backups)'
    BY <1>2 DEF JobInv, IsSeq
  <2> QED
    BY <1>1, <1>2, <2>1 DEF JobInv
<1>3. CASE /\ ManifestAccepted(captured) /\ AllReplayable
           /\ backups' = Append(backups, [connectors |-> captured, archive |-> archive])
  <2> DEFINE new == [connectors |-> captured, archive |-> archive]
             last == Len(backups) + 1
  <2>1. /\ captured # <<>> /\ Captures(captured) /\ ExactInLog(captured, archive)
        /\ \A b \in DOMAIN backups : Below(backups[b].archive, archive)
        /\ archive \in [Keys -> Nat] /\ Below(archive, held)
    BY <1>3 DEF JobInv, ManifestAccepted
  <2>2. Exact(captured, archive)
    <3>1. ASSUME NEW n \in Indexes, NEW i \in Places(n)
          PROVE  captured[n].offsets[i].offset <= LogEnd[KeyAt(Pipelines[n], i)]
      <4>1. n \in DOMAIN captured /\ i \in DOMAIN captured[n].offsets
            /\ captured[n].offsets[i].key = KeyAt(Pipelines[n], i)
        BY <2>1, PlacesOfCheckpoint DEF Captures
      <4>2. OffsetsReplayable(captured[n])
        BY <1>3, <4>1 DEF AllReplayable
      <4> QED
        BY <4>1, <4>2 DEF OffsetsReplayable
    <3> QED
      BY <2>1, <3>1 DEF Exact, ExactInLog
  <2>3. new.connectors = captured /\ new.archive = archive
    OBVIOUS
  <2>4. backups' = Append(backups, new)
    BY <1>3
  <2> HIDE DEF new
  <2>5. /\ IsSeq(backups') /\ Len(backups) \in Nat
        /\ DOMAIN backups = 1 .. Len(backups) /\ DOMAIN backups' = 1 .. last
        /\ \A b \in DOMAIN backups : backups'[b] = backups[b]
        /\ backups'[last] = new
    BY <2>4, Appended DEF JobInv
  <2>6. \A b \in DOMAIN backups' : b = last \/ b \in DOMAIN backups
    BY <2>5
  <2>7. ASSUME NEW b \in DOMAIN backups'
        PROVE  /\ Captures(backups'[b].connectors)
               /\ Exact(backups'[b].connectors, backups'[b].archive)
               /\ backups'[b].archive \in [Keys -> Nat] /\ Below(backups'[b].archive, held)
    <3>1. CASE b = last
      BY <2>1, <2>2, <2>3, <2>5, <3>1
    <3>2. CASE b \in DOMAIN backups
      BY <2>5, <3>2 DEF JobInv
    <3> QED
      BY <2>6, <3>1, <3>2
  <2>8. ASSUME NEW a \in DOMAIN backups', NEW b \in DOMAIN backups', a < b
        PROVE  Below(backups'[a].archive, backups'[b].archive)
    <3>1. a \in DOMAIN backups
      BY <2>5, <2>8
    <3>2. CASE b = last
      BY <2>1, <2>3, <2>5, <3>1, <3>2
    <3>3. CASE b \in DOMAIN backups
      BY <2>5, <2>8, <3>1, <3>3 DEF JobInv
    <3> QED
      BY <2>6, <3>2, <3>3
  <2> QED
    BY <1>1, <2>5, <2>7, <2>8 DEF JobInv, IsSeq
<1> QED
    BY <1>2, <1>3 DEF Publish

\* Nobody but the Job changes what it keeps, and records are only added.
LEMMA JobInvKept ==
    ASSUME SinkInv, SinkInv', JobInv, Grows, UNCHANGED jobVars PROVE JobInv'
<1>1. UNCHANGED <<captured, archive, backups>>
    BY DEF jobVars
<1>2. ASSUME NEW records \in [Keys -> Nat], Below(records, held) PROVE Below(records, held')
    BY <1>2 DEF Below, Grows, SinkInv, SinkTypes
<1>3. IsSeq(backups)'
    BY <1>1 DEF JobInv, IsSeq
<1> QED
    BY <1>1, <1>2, <1>3 DEF JobInv

-----------------------------------------------------------------------------
(* The theorems.                                                             *)

Inv == SinkInv /\ JobInv

LEMMA InitInv == Init => Inv
<1> SUFFICES ASSUME Init PROVE Inv
    OBVIOUS
<1>1. /\ held \in [Keys -> Nat] /\ low \in [Keys -> Nat]
      /\ \A k \in Keys : held[k] = 0
    BY DEF Init, Nothing
<1>2. SinkTypes
    BY <1>1 DEF Init, SinkTypes, UniqueKeys
<1>3. RowInv
    BY <1>1, KeysAreOwn DEF Init, RowInv
<1>4. /\ captured = <<>> /\ backups = <<>> /\ DOMAIN backups = {}
      /\ archive \in [Keys -> Nat] /\ Below(archive, held)
    BY DEF Init, Nothing, Below
<1>5. IsSeq(backups)
    BY <1>4 DEF IsSeq
<1>6. JobInv
    BY <1>4, <1>5 DEF JobInv
<1> QED
    BY <1>2, <1>3, <1>6 DEF Inv, SinkInv

LEMMA NextInv == Inv /\ [Next]_vars => Inv'
<1> SUFFICES ASSUME Inv, [Next]_vars PROVE Inv'
    OBVIOUS
<1>1. SinkInv /\ JobInv
    BY DEF Inv
<1>2. CASE Source
  <2>1. SinkInv' /\ Grows
    BY <1>1, <1>2, SourceNext
  <2>2. UNCHANGED jobVars
    BY <1>2 DEF Source, Sink, Put, PutAgain, CommitOffset, OddRow, LoseRow, Grow, Trim
  <2> QED
    BY <1>1, <2>1, <2>2, JobInvKept DEF Inv
<1>3. CASE Capture \/ Check \/ Publish
  <2>1. UNCHANGED <<sinkVars, kafkaVars>>
    BY <1>3 DEF Capture, Check, Publish
  <2>2. SinkInv'
    BY <1>1, <2>1, SinkInvKept
  <2>3. JobInv'
    BY <1>1, <1>3, CaptureNext, CheckNext, PublishNext
  <2> QED
    BY <2>2, <2>3 DEF Inv
<1>4. CASE UNCHANGED <<sinkVars, kafkaVars, jobVars>>
  <2>1. SinkInv'
    BY <1>1, <1>4, SinkInvKept
  <2>2. held' = held /\ UNCHANGED jobVars
    BY <1>4 DEF sinkVars
  <2> QED
    BY <1>1, <2>1, <2>2, GrowsUnchanged, JobInvKept DEF Inv
<1>5. CASE Request \/ Plan \/ Handover \/ Interrupt \/ Cutover
    BY <1>4, <1>5 DEF Request, Plan, Handover, Create, Stop, PatchOffsets, Hydrate, Progress,
                      Resume, handedVars, Interrupt, Cutover
<1>6. ASSUME NEW n \in Indexes, NEW key \in KeysNow(n), NEW last \in 0 .. MaxSigned,
             FollowPut(n, key, last)
      PROVE  Inv'
    BY <1>4, <1>6 DEF FollowPut
<1>7. CASE UNCHANGED vars
    BY <1>4, <1>7 DEF vars
<1> QED
    BY <1>2, <1>3, <1>5, <1>6, <1>7 DEF Next, Idle

LEMMA InvHolds == Spec => []Inv
    BY InitInv, NextInv, PTL DEF Spec

\* Whatever KeeperMap and Connect report, every offset of every published backup is
\* the number of records the archive holds of its partition.
THEOREM OffsetsExact == Spec => []PublishedOffsetsExact
<1>1. Inv => PublishedOffsetsExact
  <2> SUFFICES ASSUME Inv, NEW b \in DOMAIN backups, NEW n \in DOMAIN backups[b].connectors,
                      NEW i \in DOMAIN backups[b].connectors[n].offsets
               PROVE  LET o == backups[b].connectors[n].offsets[i]
                      IN  o.offset = backups[b].archive[o.key]
    BY DEF PublishedOffsetsExact
  <2> DEFINE connectors == backups[b].connectors
  <2>1. Captures(connectors) /\ Exact(connectors, backups[b].archive)
    BY DEF Inv, JobInv
  <2>2. n \in DOMAIN connectors /\ i \in DOMAIN connectors[n].offsets
    OBVIOUS
  <2> HIDE DEF connectors
  <2>3. n \in Indexes
    BY <2>1, <2>2 DEF Captures
  <2>4. i \in Places(n) /\ connectors[n].offsets[i].key = KeyAt(Pipelines[n], i)
    BY <2>1, <2>2, <2>3, PlacesOfCheckpoint
  <2>5. LET o == connectors[n].offsets[i] IN o.offset = backups[b].archive[o.key]
    BY <2>1, <2>3, <2>4 DEF Exact
  <2> QED
    BY <2>5 DEF connectors
<1> QED
    BY <1>1, InvHolds, PTL

\* What checkpoint() lets pass, validate_manifest accepts when the Job publishes it.
THEOREM CapturedStaysValid == Spec => []CheckpointsStayValid
<1>1. Inv => CheckpointsStayValid
    BY CapturesAccepted DEF Inv, JobInv, CheckpointsStayValid
<1> QED
    BY <1>1, InvHolds, PTL

\* No Job is ever locked out by what earlier ones have published: no offset falls
\* behind its parent's although none is compared when it is captured.
THEOREM PublishedStaysValid == Spec => []ChainStaysValid
<1>1. Inv => ChainStaysValid
    BY CatalogAccepted DEF Inv
<1> QED
    BY <1>1, InvHolds, PTL
=============================================================================
