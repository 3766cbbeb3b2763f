----------------------- MODULE HandoverRecoveryProofs -----------------------
(***************************************************************************)
(* Proofs about the recovery of OffsetHandover, for every set of           *)
(* pipelines, whatever vector a user asks for and however often an attempt *)
(* is interrupted between two of its requests: a follow connector begins   *)
(* where the destination ends, what completes is what was asked for, and   *)
(* a recovery that bails at rows of its own accepts them at its next       *)
(* attempt. They rest on what OffsetHandoverProofs shows of the published  *)
(* offsets.                                                                *)
(***************************************************************************)
EXTENDS OffsetHandoverProofs

-----------------------------------------------------------------------------
(* The invariant.                                                            *)

\* The partitions a backup has of pipeline n.
Captured(n) == KeysOf(Pipelines[n])

\* Rows a KeeperMap table can hold.
RowTypes(rows) == \A row \in rows : row.min \in Nat /\ row.max \in Nat

\* What the source and the Job keep stays within its bounds.
SourceInv ==
    /\ \A k \in Keys : held[k] <= LogEnd[k] /\ low[k] <= LogEnd[k]
    /\ job \in {"idle", "captured", "checked"}
    /\ Len(backups) <= MaxBackups /\ (job # "idle" => Len(backups) < MaxBackups)
    /\ \A n \in DOMAIN captured : RowTypes(captured[n].rows)
    /\ \A b \in DOMAIN backups : \A n \in DOMAIN backups[b].connectors :
          RowTypes(backups[b].connectors[n].rows)

HandingOver == Handing \cup {"conflict"}

\* What is recovered is known from the request on, and nothing is recovered before
\* a plan was accepted.
RequestInv ==
    /\ place \in HandingOver \cup {"none", "plan", "rejected", "done", "cutover"}
    /\ index \in Indexes /\ retries \in 0 .. MaxRetries /\ restored \in BOOLEAN
    /\ UniqueKeys(existing)
    /\ DOMAIN dest = Keys /\ DOMAIN follow = Indexes
    /\ place = "none" => request = NoRequest /\ ~restored
    /\ place # "none" =>
          /\ job = "idle" /\ request.backup \in DOMAIN backups
          /\ Bounded => request.targets \in Requests
    /\ ~restored =>
          /\ place \in {"none", "plan", "rejected"}
          /\ \A n \in Indexes : follow[n] = Absent

\* What a plan was accepted for, whatever retention takes later.
PlanFits ==
    /\ Bounded => TargetsAccepted(Starts, request.targets)
    /\ \A key \in DOMAIN Goals :
          Goals[key] \in Nat /\ Starts[key] <= Goals[key] /\ Goals[key] <= LogEnd[key]

PlanInv == restored => PlanFits

FollowPosition(n, key) == Position(follow[n].rows, follow[n].offsets, key)

\* A follow connector has what a later attempt of a live recovery asks for.
Progressed(n) == ProgressAccepted(follow[n].rows, RowsOf(n), GoalOf(n))

\* A follow connector is inside its partitions, and at its goal in those it has no row
\* for. It does not run, and has no rows, before it has offsets and the rows it begins
\* with; a bounded one has no others until its cutover.
FollowOK(n) ==
    /\ Planned(n)
    /\ DOMAIN follow[n] = {"state", "rows", "offsets"}
    /\ follow[n].state \in {"STOPPED", "RUNNING"}
    /\ UniqueKeys(follow[n].rows) /\ UniqueKeys(follow[n].offsets)
    /\ \A row \in follow[n].rows : row.key \in Captured(n) /\ row.max \in 0 .. MaxSigned
    /\ \A o \in follow[n].offsets : o.key \in Captured(n)
    /\ \A key \in Captured(n) :
          /\ FollowPosition(n, key) \in Nat /\ FollowPosition(n, key) <= LogEnd[key]
          /\ follow[n].offsets # {} /\ ~Has(follow[n].rows, key)
                => FollowPosition(n, key) = GoalOf(n)[key]
    /\ follow[n].state = "RUNNING" \/ follow[n].rows # {}
          => follow[n].offsets # {} /\ Progressed(n)
    /\ Bounded /\ place # "cutover" =>
          /\ follow[n].state = "STOPPED"
          /\ follow[n].rows \in {{}, RowsOf(n)}
          /\ follow[n].offsets \in {{}, Offsets(GoalOf(n))}

\* What the destination has of a partition of pipeline n: nothing, the archive, or
\* all up to where the follow connector will begin or is.
Standing(n, key) ==
    IF ~restored \/ ~Planned(n) THEN 0
    ELSE IF follow[n] = Absent THEN backups[request.backup].archive[key]
    ELSE IF follow[n].offsets = {} THEN GoalOf(n)[key]
    ELSE FollowPosition(n, key)

DestInv ==
    /\ \A n \in Indexes : \A key \in Captured(n) : dest[key] = FirstRecords(Standing(n, key))
    /\ \A key \in Keys : (\A n \in Indexes : key \notin Captured(n)) => dest[key] = <<>>

\* The connector the loop is at, between two of its requests: from the second on it is
\* stopped, from the third on it has its offsets. What it put after its rows were read
\* it put with no rows to begin with.
PlaceInv ==
    place \in HandingOver \ {"handover"} =>
        /\ Planned(index) /\ follow[index] # Absent
        /\ place \in {"patch", "hydrate", "conflict"} => follow[index].state = "STOPPED"
        /\ place \notin {"stop", "patch"} => follow[index].offsets # {}
        /\ place \in {"stop", "patch", "conflict"} => existing = {}
        /\ place \in {"stop", "patch", "hydrate"} /\ existing = {} /\ follow[index].rows # {}
              => RowsOf(index) = {}
        /\ place = "hydrate" =>
              /\ follow[index].offsets = Offsets(GoalOf(index))
              /\ ~Bounded => existing = {}
        /\ place \in {"progress", "resume", "conflict"} => ~Bounded
        /\ place = "progress" => ProgressAccepted(existing, RowsOf(index), GoalOf(index))
        /\ place \in {"progress", "conflict"} => follow[index].rows # {}
        /\ place = "conflict" => RowsOf(index) = {}
        /\ place = "resume" => Progressed(index)

\* The connectors the loop is past are ready to run.
Ready(n) == follow[n] # Absent /\ follow[n].offsets # {} /\ Progressed(n)

ReachedInv ==
    \A n \in Indexes :
        /\ Planned(n)
        /\ place \in {"done", "cutover"} \/ (place \in HandingOver /\ n < index)
        => Ready(n)

FollowInv == \A n \in Indexes : follow[n] # Absent => FollowOK(n)

RecoveryInv ==
    /\ SourceInv /\ RequestInv /\ PlanInv
    /\ FollowInv /\ DestInv /\ PlaceInv /\ ReachedInv

-----------------------------------------------------------------------------
(* Records in the order of their offsets.                                    *)

LEMMA FirstRecordsLength ==
    ASSUME NEW n \in Nat
    PROVE  FirstRecords(n) \in Seq(Nat) /\ Len(FirstRecords(n)) = n
    BY DEF FirstRecords

LEMMA NoRecords == FirstRecords(0) = <<>>
<1>1. FirstRecords(0) \in Seq(Nat) /\ Len(FirstRecords(0)) = 0
    BY FirstRecordsLength
<1> QED
    BY <1>1, EmptySeq

LEMMA ConcatAt ==
    ASSUME NEW s \in Seq(Nat), NEW t \in Seq(Nat)
    PROVE  /\ s \o t \in Seq(Nat) /\ Len(s \o t) = Len(s) + Len(t)
           /\ \A i \in 1 .. Len(s) : (s \o t)[i] = s[i]
           /\ \A i \in 1 .. Len(t) : (s \o t)[Len(s) + i] = t[i]
    OBVIOUS

\* A range is appended where the records before it end.
LEMMA FirstRecordsJoin ==
    ASSUME NEW a \in Nat, NEW b \in Nat, a <= b
    PROVE  FirstRecords(a) \o [i \in 1 .. b - a |-> a + i - 1] = FirstRecords(b)
<1> DEFINE range == [i \in 1 .. b - a |-> a + i - 1]
           left == FirstRecords(a)
           joined == left \o range
<1>1. left \in Seq(Nat) /\ Len(left) = a /\ \A i \in 1 .. a : left[i] = i - 1
    BY FirstRecordsLength DEF FirstRecords
<1>2. range \in Seq(Nat) /\ Len(range) = b - a /\ \A i \in 1 .. b - a : range[i] = a + i - 1
    OBVIOUS
<1>3. /\ FirstRecords(b) \in Seq(Nat) /\ Len(FirstRecords(b)) = b
      /\ \A i \in 1 .. b : FirstRecords(b)[i] = i - 1
    BY FirstRecordsLength DEF FirstRecords
<1> HIDE DEF range, left
<1>4. /\ joined \in Seq(Nat) /\ Len(joined) = Len(left) + Len(range)
      /\ \A i \in 1 .. Len(left) : joined[i] = left[i]
      /\ \A i \in 1 .. Len(range) : joined[Len(left) + i] = range[i]
    BY <1>1, <1>2, ConcatAt, Zenon
<1> HIDE DEF joined
<1>5. ASSUME NEW i \in 1 .. b PROVE joined[i] = i - 1
  <2>1. CASE i <= a
    BY <1>1, <1>4, <2>1
  <2>2. CASE i > a
    <3> DEFINE k == i - a
    <3>1. k \in 1 .. b - a /\ i = a + k
      BY <2>2
    <3> HIDE DEF k
    <3>2. joined[a + k] = a + k - 1
      BY <1>1, <1>2, <1>4, <3>1
    <3> QED
      BY <3>1, <3>2
  <2> QED
    BY <2>1, <2>2
<1>6. Len(joined) = b
    BY <1>1, <1>2, <1>4
<1>7. joined = FirstRecords(b)
    BY <1>3, <1>4, <1>5, <1>6, SeqEqual
<1> QED
    BY <1>7 DEF joined, left, range

LEMMA NothingJoined ==
    ASSUME NEW n \in Nat PROVE FirstRecords(n) \o <<>> = FirstRecords(n)
    BY FirstRecordsLength

-----------------------------------------------------------------------------
(* Positions.                                                                *)

\* A row within i64 derives the offset after it.
LEMMA RowPosition ==
    ASSUME NEW rows, UniqueKeys(rows), NEW row \in rows, row.max \in 0 .. MaxSigned
    PROVE  ExactOffset(rows, row.key) = row.max + 1
<1>1. (CHOOSE r \in rows : r.key = row.key) = row
    BY DEF UniqueKeys
<1>2. ExactOffset(rows, row.key) = Successor(row.max)
    BY <1>1, Zenon DEF ExactOffset
<1> QED
    BY <1>2, WidthAssumption DEF Successor, MaxUnsigned

\* A put moves the position of its partition ...
LEMMA PositionAfterPut ==
    ASSUME NEW rows, UniqueKeys(rows), NEW offsets, NEW row, row.max \in 0 .. MaxSigned
    PROVE  Position(With(rows, row), offsets, row.key) = row.max + 1
<1>1. UniqueKeys(With(rows, row)) /\ row \in With(rows, row)
    BY WithUnique
<1>2. ExactOffset(With(rows, row), row.key) = row.max + 1
    BY <1>1, RowPosition
<1> QED
    BY <1>1, <1>2 DEF Position, Has

\* ... and of no other.
LEMMA OthersKept ==
    ASSUME NEW entries, UniqueKeys(entries), NEW entry, NEW key, key # entry.key
    PROVE  /\ Has(With(entries, entry), key) <=> Has(entries, key)
           /\ At(With(entries, entry), key) = At(entries, key)
<1>1. \A e : e \in With(entries, entry) /\ e.key = key <=> e \in entries /\ e.key = key
    BY DEF With
<1>2. Has(With(entries, entry), key) <=> Has(entries, key)
    BY <1>1 DEF Has
<1>3. (CHOOSE e : e \in With(entries, entry) /\ e.key = key)
        = CHOOSE e : e \in entries /\ e.key = key
    BY <1>1
<1> QED
    BY <1>2, <1>3 DEF At

LEMMA PositionOfOthers ==
    ASSUME NEW rows, UniqueKeys(rows), NEW offsets, UniqueKeys(offsets),
           NEW row, NEW offset, NEW key, key # row.key, key # offset.key
    PROVE  Position(With(rows, row), With(offsets, offset), key) = Position(rows, offsets, key)
<1>1. /\ Has(With(rows, row), key) <=> Has(rows, key)
      /\ At(With(rows, row), key) = At(rows, key)
      /\ Has(With(offsets, offset), key) <=> Has(offsets, key)
      /\ At(With(offsets, offset), key) = At(offsets, key)
    BY OthersKept
<1>2. \A entries : ExactOffset(entries, key)
                     = IF Has(entries, key) THEN Successor(At(entries, key).max) ELSE 0
    BY DEF ExactOffset, Has, At
<1> QED
    BY <1>1, <1>2 DEF Position

-----------------------------------------------------------------------------
(* What a recovery's plan is made of.                                        *)

\* The starts of connectors whose offsets are those of an archive are, too.
LEMMA StartsExact ==
    ASSUME NEW connectors, NEW records,
           \A n \in DOMAIN connectors : \A i \in DOMAIN connectors[n].offsets :
               connectors[n].offsets[i].offset = records[connectors[n].offsets[i].key]
    PROVE  /\ \A key : key \in DOMAIN StartOffsets(connectors) <=>
                  \E n \in DOMAIN connectors : \E i \in DOMAIN connectors[n].offsets :
                      connectors[n].offsets[i].key = key
           /\ \A key \in DOMAIN StartOffsets(connectors) :
                  StartOffsets(connectors)[key] = records[key]
<1>1. \A s : s \in Slots(connectors) <=>
          \E n \in DOMAIN connectors : \E i \in DOMAIN connectors[n].offsets : s = <<n, i>>
    BY DEF Slots
<1>2. \A n, i : Slot(connectors, <<n, i>>) = connectors[n].offsets[i]
    BY DEF Slot
<1>3. DOMAIN StartOffsets(connectors) = {Slot(connectors, s).key : s \in Slots(connectors)}
    BY DEF StartOffsets
<1>4. ASSUME NEW key \in DOMAIN StartOffsets(connectors)
      PROVE  StartOffsets(connectors)[key] = records[key]
  <2> DEFINE place_ == CHOOSE s \in Slots(connectors) : Slot(connectors, s).key = key
  <2>1. \E s \in Slots(connectors) : Slot(connectors, s).key = key
    BY <1>3
  <2>2. place_ \in Slots(connectors) /\ Slot(connectors, place_).key = key
    BY <2>1
  <2>3. StartOffsets(connectors)[key] = Slot(connectors, place_).offset
    BY <1>3 DEF StartOffsets
  <2> HIDE DEF place_
  <2>4. Slot(connectors, place_).offset = records[Slot(connectors, place_).key]
    BY <1>1, <1>2, <2>2
  <2> QED
    BY <2>2, <2>3, <2>4
<1>5. ASSUME NEW key
      PROVE  key \in DOMAIN StartOffsets(connectors) <=>
                 \E n \in DOMAIN connectors : \E i \in DOMAIN connectors[n].offsets :
                     connectors[n].offsets[i].key = key
  <2>1. key \in DOMAIN StartOffsets(connectors)
          <=> \E s \in Slots(connectors) : Slot(connectors, s).key = key
    BY <1>3
  <2>2. ASSUME NEW s \in Slots(connectors), Slot(connectors, s).key = key
        PROVE  \E n \in DOMAIN connectors : \E i \in DOMAIN connectors[n].offsets :
                   connectors[n].offsets[i].key = key
    BY <1>1, <1>2, <2>2
  <2>3. ASSUME NEW n \in DOMAIN connectors, NEW i \in DOMAIN connectors[n].offsets,
               connectors[n].offsets[i].key = key
        PROVE  \E s \in Slots(connectors) : Slot(connectors, s).key = key
    BY <1>1, <1>2, <2>3
  <2> QED
    BY <2>1, <2>2, <2>3
<1> QED
    BY <1>4, <1>5

Archived == backups[request.backup].archive

RecoveredPipelines == {n \in Indexes : Planned(n)}

\* The manifest has every pipeline where it is configured, with the archive's offsets.
LEMMA ManifestIs ==
    ASSUME JobInv, SourceInv, request.backup \in DOMAIN backups
    PROVE  /\ DOMAIN Manifest = Indexes
           /\ Archived \in [Keys -> Nat]
           /\ \A n \in Indexes :
                 /\ Manifest[n].table = Pipelines[n].table
                 /\ DOMAIN Manifest[n].offsets = Places(n)
                 /\ \A i \in Places(n) :
                       /\ Manifest[n].offsets[i].key = KeyAt(Pipelines[n], i)
                       /\ Manifest[n].offsets[i].offset = Archived[KeyAt(Pipelines[n], i)]
                       /\ Manifest[n].offsets[i].offset
                            = ExactOffset(Manifest[n].rows, KeyAt(Pipelines[n], i))
                 /\ UniqueKeys(Manifest[n].rows)
                 /\ \A row \in Manifest[n].rows :
                       row.key \in Captured(n) /\ row.max \in 0 .. MaxSigned
<1> DEFINE connectors == Manifest
<1>1. /\ Captures(connectors) /\ Exact(connectors, Archived) /\ Archived \in [Keys -> Nat]
      /\ \A n \in DOMAIN connectors : RowTypes(connectors[n].rows)
    BY DEF JobInv, SourceInv, Manifest, Archived
<1> HIDE DEF connectors
<1>2. ASSUME NEW n \in Indexes
      PROVE  /\ connectors[n].table = Pipelines[n].table
             /\ DOMAIN connectors[n].offsets = Places(n)
             /\ \A i \in Places(n) :
                   /\ connectors[n].offsets[i].key = KeyAt(Pipelines[n], i)
                   /\ connectors[n].offsets[i].offset = Archived[KeyAt(Pipelines[n], i)]
                   /\ connectors[n].offsets[i].offset
                        = ExactOffset(connectors[n].rows, KeyAt(Pipelines[n], i))
             /\ UniqueKeys(connectors[n].rows)
             /\ \A row \in connectors[n].rows :
                   row.key \in Captured(n) /\ row.max \in 0 .. MaxSigned
  <2> DEFINE c == connectors[n]
             rows == c.rows
             observations == c.observed
  <2>1. /\ CheckpointAccepts(Pipelines[n], observations, rows)
        /\ c = Checkpoint(Pipelines[n], observations, rows)
        /\ RowTypes(rows)
    BY <1>1 DEF Captures
  <2>2. /\ DOMAIN c.offsets = Places(n)
        /\ \A i \in Places(n) : c.offsets[i].key = KeyAt(Pipelines[n], i)
        /\ \A i \in Places(n) : c.offsets[i].offset = Archived[KeyAt(Pipelines[n], i)]
    BY <1>1, PlacesOfCheckpoint DEF Exact
  <2> HIDE DEF c, rows, observations
  <2>3. /\ c.table = Pipelines[n].table
        /\ \A i \in Places(n) : c.offsets[i].offset = ExactOffset(rows, KeyAt(Pipelines[n], i))
    BY <2>1 DEF Checkpoint, Places
  <2>4. UniqueKeys(rows) /\ \A row \in rows : row.key \in Captured(n) /\ row.max \in 0 .. MaxSigned
    BY <2>1, WidthAssumption DEF CheckpointAccepts, Sound, RowTypes, Captured
  <2> QED
    BY <2>2, <2>3, <2>4 DEF c, rows
<1>3. DOMAIN connectors = Indexes
    BY <1>1 DEF Captures
<1> QED
    BY <1>1, <1>2, <1>3 DEF connectors

\* A plan starts every partition of the table where its archive ends.
LEMMA StartsAre ==
    ASSUME JobInv, SourceInv, request.backup \in DOMAIN backups
    PROVE  /\ \A key : key \in DOMAIN Starts <=> \E n \in RecoveredPipelines : key \in Captured(n)
           /\ \A key \in DOMAIN Starts : Starts[key] = Archived[key]
<1>1. /\ DOMAIN PlannedConnectors = RecoveredPipelines
      /\ \A n \in RecoveredPipelines : PlannedConnectors[n] = Manifest[n]
    BY ManifestIs DEF PlannedConnectors, RecoveredPipelines, Planned, Restrict
<1>2. \A n \in RecoveredPipelines :
          /\ n \in Indexes
          /\ DOMAIN PlannedConnectors[n].offsets = Places(n)
          /\ \A i \in Places(n) :
                /\ PlannedConnectors[n].offsets[i].key = KeyAt(Pipelines[n], i)
                /\ PlannedConnectors[n].offsets[i].offset = Archived[KeyAt(Pipelines[n], i)]
    BY <1>1, ManifestIs DEF RecoveredPipelines
<1>3. \A n \in Indexes : \A key :
          key \in Captured(n) <=> \E i \in Places(n) : key = KeyAt(Pipelines[n], i)
    BY DEF Captured, KeysOf, Places
<1> DEFINE connectors == PlannedConnectors
<1>4. /\ \A n \in DOMAIN connectors : \A i \in DOMAIN connectors[n].offsets :
             connectors[n].offsets[i].offset = Archived[connectors[n].offsets[i].key]
      /\ \A key : (\E n \in DOMAIN connectors : \E i \in DOMAIN connectors[n].offsets :
                      connectors[n].offsets[i].key = key)
                  <=> \E n \in RecoveredPipelines : key \in Captured(n)
    BY <1>1, <1>2, <1>3
<1>5. Starts = StartOffsets(connectors)
    BY DEF Starts
<1> DEFINE records == Archived
<1> HIDE DEF connectors, records
<1>a. \A n \in DOMAIN connectors : \A i \in DOMAIN connectors[n].offsets :
          connectors[n].offsets[i].offset = records[connectors[n].offsets[i].key]
    BY <1>4 DEF records
<1>6. /\ \A key : key \in DOMAIN StartOffsets(connectors) <=>
             \E n \in DOMAIN connectors : \E i \in DOMAIN connectors[n].offsets :
                 connectors[n].offsets[i].key = key
      /\ \A key \in DOMAIN StartOffsets(connectors) :
             StartOffsets(connectors)[key] = records[key]
    BY <1>a, StartsExact
<1> QED
    BY <1>4, <1>5, <1>6 DEF records

\* An accepted plan has a goal for every partition of the table, no earlier than its
\* archive ends and no later than its log does.
LEMMA GoalsAre ==
    ASSUME JobInv, SourceInv, request.backup \in DOMAIN backups, PlanFits
    PROVE  /\ DOMAIN Goals = DOMAIN Starts
           /\ \A n \in RecoveredPipelines :
                 /\ DOMAIN GoalOf(n) = Captured(n)
                 /\ \A key \in Captured(n) :
                       /\ GoalOf(n)[key] = Goals[key] /\ Starts[key] = Archived[key]
                       /\ GoalOf(n)[key] \in Nat /\ Archived[key] \in Nat
                       /\ Archived[key] <= GoalOf(n)[key] /\ GoalOf(n)[key] <= LogEnd[key]
                       /\ LogEnd[key] \in 0 .. MaxSigned /\ key \in Keys
<1>1. DOMAIN Goals = DOMAIN Starts
  <2>1. CASE Bounded
    BY <2>1 DEF PlanFits, TargetsAccepted, Goals, Vector
  <2>2. CASE ~Bounded
    BY <2>2 DEF Goals
  <2> QED
    BY <2>1, <2>2
<1>2. ASSUME NEW n \in RecoveredPipelines
      PROVE  DOMAIN GoalOf(n) = Captured(n) /\ \A key \in Captured(n) : GoalOf(n)[key] = Goals[key]
  <2>1. \A m \in Indexes : \A key \in Captured(m) : key[1] = Pipelines[m].topic
    BY DEF Captured, KeysOf, KeyAt
  <2>2. \A m \in RecoveredPipelines : m # n => Pipelines[m].topic # Pipelines[n].topic
    BY PipelineAssumption DEF RecoveredPipelines
  <2>3. \A key : key \in DOMAIN Goals /\ key[1] = Pipelines[n].topic <=> key \in Captured(n)
    BY <1>1, <2>1, <2>2, StartsAre DEF RecoveredPipelines
  <2> QED
    BY <2>3 DEF GoalOf, TopicOffsets
<1>3. ASSUME NEW n \in RecoveredPipelines, NEW key \in Captured(n)
      PROVE  /\ Starts[key] = Archived[key]
             /\ Goals[key] \in Nat /\ Archived[key] \in Nat
             /\ Archived[key] <= Goals[key] /\ Goals[key] <= LogEnd[key]
             /\ LogEnd[key] \in 0 .. MaxSigned /\ key \in Keys
  <2>1. key \in DOMAIN Starts /\ Starts[key] = Archived[key]
    BY StartsAre
  <2>2. key \in Keys
    BY KeysAreOwn DEF RecoveredPipelines, Captured
  <2>3. LogEnd[key] \in 0 .. MaxSigned /\ Archived[key] \in Nat
    BY <2>2, ManifestIs, BoundAssumption
  <2> QED
    BY <1>1, <2>1, <2>2, <2>3 DEF PlanFits
<1> QED
    BY <1>1, <1>2, <1>3

\* The rows made for a vector mean what it says, to a sink that has its offsets ...
LEMMA RowsOfVector ==
    ASSUME NEW vector, \A k \in DOMAIN vector : vector[k] \in 0 .. MaxSigned
    PROVE  /\ UniqueKeys(KeeperRows(vector))
           /\ \A row \in KeeperRows(vector) : row.key \in DOMAIN vector /\ row.max \in 0 .. MaxSigned
           /\ \A key \in DOMAIN vector :
                 ExactOffset(KeeperRows(vector), key) = vector[key]
<1> DEFINE rows == KeeperRows(vector)
           Row(k) == [key |-> k, min |-> vector[k] - 1, max |-> vector[k] - 1,
                      state |-> "AFTER_PROCESSING"]
<1>1. /\ \A k \in DOMAIN vector : vector[k] > 0 => Row(k) \in rows
      /\ \A row \in rows : row.key \in DOMAIN vector /\ vector[row.key] > 0 /\ row = Row(row.key)
    BY DEF KeeperRows
<1>2. \A k : Row(k).key = k /\ Row(k).max = vector[k] - 1
    OBVIOUS
<1> HIDE DEF rows, Row
<1>3. UniqueKeys(rows)
    BY <1>1 DEF UniqueKeys
<1>4. \A row \in rows : row.key \in DOMAIN vector /\ row.max = vector[row.key] - 1
                        /\ row.max \in 0 .. MaxSigned
    BY <1>1, <1>2, WidthAssumption
<1>5. ASSUME NEW key \in DOMAIN vector PROVE ExactOffset(rows, key) = vector[key]
  <2>1. CASE vector[key] > 0
    <3>1. Row(key) \in rows /\ Row(key).key = key
      BY <1>1, <1>2, <2>1
    <3>2. Row(key).max \in 0 .. MaxSigned /\ Row(key).max = vector[key] - 1
      BY <1>2, <1>4, <3>1
    <3>3. ExactOffset(rows, Row(key).key) = Row(key).max + 1
      BY <1>3, <3>1, <3>2, RowPosition
    <3> QED
      BY <3>1, <3>2, <3>3
  <2>2. CASE vector[key] = 0
    <3>1. \A row \in rows : row.key # key
      BY <1>1, <2>2
    <3> QED
      BY <2>2, <3>1 DEF ExactOffset
  <2> QED
    BY <2>1, <2>2
<1> QED
    BY <1>3, <1>4, <1>5 DEF rows

LEMMA OffsetsOfVector ==
    ASSUME NEW vector
    PROVE  /\ UniqueKeys(Offsets(vector))
           /\ \A o \in Offsets(vector) : o.key \in DOMAIN vector
           /\ \A key \in DOMAIN vector :
                 Has(Offsets(vector), key) /\ At(Offsets(vector), key).offset = vector[key]
<1>1. /\ \A k \in DOMAIN vector : [key |-> k, offset |-> vector[k]] \in Offsets(vector)
      /\ \A o \in Offsets(vector) : o.key \in DOMAIN vector /\ o = [key |-> o.key, offset |-> vector[o.key]]
    BY DEF Offsets
<1>2. UniqueKeys(Offsets(vector))
    BY <1>1 DEF UniqueKeys
<1>3. ASSUME NEW key \in DOMAIN vector
      PROVE  Has(Offsets(vector), key) /\ At(Offsets(vector), key).offset = vector[key]
  <2> DEFINE o == [key |-> key, offset |-> vector[key]]
  <2>1. o \in Offsets(vector) /\ o.key = key /\ o.offset = vector[key]
    BY <1>1
  <2> HIDE DEF o
  <2>2. At(Offsets(vector), o.key) = o
    BY <1>2, <2>1, FoundByKey
  <2> QED
    BY <2>1, <2>2 DEF Has
<1> QED
    BY <1>1, <1>2, <1>3

\* ... and so do a row set and offsets that agree on every partition.
LEMMA PositionOfVector ==
    ASSUME NEW rows, NEW vector, NEW key \in DOMAIN vector,
           ExactOffset(rows, key) = vector[key]
    PROVE  Position(rows, Offsets(vector), key) = vector[key]
    BY OffsetsOfVector DEF Position

\* What a follow connector is given for its part of a plan: rows of its partitions that
\* mean the goal, whether they are the captured ones or made up.
Handed(n) ==
    /\ UniqueKeys(RowsOf(n)) /\ UniqueKeys(Offsets(GoalOf(n)))
    /\ \A row \in RowsOf(n) : row.key \in Captured(n) /\ row.max \in 0 .. MaxSigned
    /\ Offsets(GoalOf(n)) # {} /\ \A o \in Offsets(GoalOf(n)) : o.key \in Captured(n)
    /\ \A key \in Captured(n) : At(Offsets(GoalOf(n)), key).offset = GoalOf(n)[key]
    /\ \A key \in Captured(n) : Has(Offsets(GoalOf(n)), key)
    /\ \A key \in Captured(n) : ExactOffset(RowsOf(n), key) = GoalOf(n)[key]
    /\ \A key \in Captured(n) : Position(RowsOf(n), Offsets(GoalOf(n)), key) = GoalOf(n)[key]
    /\ ProgressAccepted(RowsOf(n), RowsOf(n), GoalOf(n))

LEMMA HandedIsRight ==
    ASSUME JobInv, SourceInv, request.backup \in DOMAIN backups, PlanFits,
           NEW n \in RecoveredPipelines
    PROVE  Handed(n)
<1> DEFINE vector == GoalOf(n)
           checkpoint == Manifest[n]
           rows == RowsOf(n)
           records == Archived
<1>1. /\ DOMAIN vector = Captured(n)
      /\ \A key \in Captured(n) : vector[key] \in 0 .. MaxSigned
  <2>1. \A key \in Captured(n) :
            vector[key] \in Nat /\ vector[key] <= LogEnd[key] /\ LogEnd[key] \in 0 .. MaxSigned
    BY GoalsAre
  <2>2. DOMAIN vector = Captured(n)
    BY GoalsAre
  <2> HIDE DEF vector
  <2> QED
    BY <2>1, <2>2, WidthAssumption
<1>2. /\ DOMAIN checkpoint.offsets = Places(n)
      /\ \A i \in Places(n) :
            /\ checkpoint.offsets[i].key = KeyAt(Pipelines[n], i)
            /\ checkpoint.offsets[i].offset = records[KeyAt(Pipelines[n], i)]
            /\ checkpoint.offsets[i].offset = ExactOffset(checkpoint.rows, KeyAt(Pipelines[n], i))
      /\ UniqueKeys(checkpoint.rows)
      /\ \A row \in checkpoint.rows : row.key \in Captured(n) /\ row.max \in 0 .. MaxSigned
    BY ManifestIs DEF RecoveredPipelines
<1>3. rows = IF vector = StartOffsets(<<checkpoint>>) THEN checkpoint.rows ELSE KeeperRows(vector)
    BY DEF RowsOf, FollowRows
<1>4. \A key \in Captured(n) : \E i \in Places(n) : key = KeyAt(Pipelines[n], i)
    BY DEF Captured, KeysOf, Places
<1> HIDE DEF vector, checkpoint, rows, records
<1>5. /\ UniqueKeys(rows)
      /\ \A row \in rows : row.key \in Captured(n) /\ row.max \in 0 .. MaxSigned
      /\ \A key \in Captured(n) : ExactOffset(rows, key) = vector[key]
  <2>1. CASE vector = StartOffsets(<<checkpoint>>)
    <3>1. rows = checkpoint.rows
      BY <1>3, <2>1
    <3> DEFINE connectors == <<checkpoint>>
    <3>2. DOMAIN connectors = {1} /\ connectors[1] = checkpoint
      OBVIOUS
    <3> HIDE DEF connectors
    <3>3. \A m \in DOMAIN connectors : \A i \in DOMAIN connectors[m].offsets :
              connectors[m].offsets[i].offset = records[connectors[m].offsets[i].key]
      BY <1>2, <3>2
    <3>4. \A key \in DOMAIN StartOffsets(connectors) : StartOffsets(connectors)[key] = records[key]
      BY <3>3, StartsExact
    <3>5. vector = StartOffsets(connectors)
      BY <2>1 DEF connectors
    <3>6. \A key \in Captured(n) : vector[key] = records[key]
      BY <1>1, <3>4, <3>5
    <3>7. \A key \in Captured(n) : ExactOffset(rows, key) = vector[key]
      BY <1>2, <1>4, <3>1, <3>6
    <3> QED
      BY <1>2, <3>1, <3>7
  <2>2. CASE vector # StartOffsets(<<checkpoint>>)
    BY <1>1, <1>3, <2>2, RowsOfVector
  <2> QED
    BY <2>1, <2>2
<1>6. \A key \in Captured(n) : Position(rows, Offsets(vector), key) = vector[key]
    BY <1>1, <1>5, PositionOfVector
<1>7. ProgressAccepted(rows, rows, vector)
    BY <1>1, <1>5 DEF ProgressAccepted
<1>8. /\ UniqueKeys(Offsets(vector)) /\ \A o \in Offsets(vector) : o.key \in Captured(n)
      /\ \A key \in Captured(n) :
            Has(Offsets(vector), key) /\ At(Offsets(vector), key).offset = vector[key]
    BY <1>1, OffsetsOfVector
<1>9. Offsets(vector) # {}
  <2>1. n \in Indexes /\ Pipelines[n].partitions \in Nat \ {0}
    BY PipelineAssumption DEF RecoveredPipelines
  <2>2. KeyAt(Pipelines[n], 1) \in Captured(n)
    BY <2>1 DEF Captured, KeysOf
  <2> QED
    BY <1>8, <2>2 DEF Has
<1> QED
    BY <1>5, <1>6, <1>7, <1>8, <1>9 DEF Handed, rows, vector

-----------------------------------------------------------------------------
(* The source and the Job.                                                   *)

\* No record is put, and none taken, after the end of a log.
LEMMA SourceBounds ==
    ASSUME SinkInv, SourceInv, Source
    PROVE  \A k \in Keys : held'[k] <= LogEnd[k] /\ low'[k] <= LogEnd[k]
<1>1. /\ held \in [Keys -> Nat] /\ low \in [Keys -> Nat]
      /\ \A k \in Keys : held[k] <= LogEnd[k] /\ low[k] <= LogEnd[k] /\ LogEnd[k] \in Nat
    BY BoundAssumption DEF SinkInv, SinkTypes, SourceInv
<1>2. ASSUME NEW n \in Indexes, NEW key \in KeysNow(n), NEW last \in 0 .. MaxSigned,
             Put(n, key, last)
      PROVE  \A k \in Keys : held'[k] <= LogEnd[k] /\ low'[k] <= LogEnd[k]
  <2>1. low' = low /\ last < LogEnd[key]
    BY <1>2 DEF Put, kafkaVars
  <2>2. held' = held \/ held' = [held EXCEPT ![key] = last + 1]
    BY <1>2 DEF Put
  <2> QED
    BY <1>1, <2>1, <2>2
<1>3. ASSUME NEW n \in Indexes, NEW row \in keeper[n],
             PutAgain(n, row) \/ CommitOffset(n, row) \/ LoseRow(n, row)
      PROVE  \A k \in Keys : held'[k] <= LogEnd[k] /\ low'[k] <= LogEnd[k]
  <2>1. low' = low
    BY <1>3 DEF PutAgain, CommitOffset, LoseRow, kafkaVars
  <2>2. CASE PutAgain(n, row)
    <3>1. held' = [held EXCEPT ![row.key] = row.max + 1] /\ row.max < LogEnd[row.key]
      BY <2>2 DEF PutAgain, Sane
    <3>2. row.max \in Nat
      BY DEF SinkInv, SinkTypes
    <3> QED
      BY <1>1, <2>1, <3>1, <3>2
  <2>3. CASE CommitOffset(n, row) \/ LoseRow(n, row)
    BY <1>1, <2>1, <2>3 DEF CommitOffset, LoseRow
  <2> QED
    BY <1>3, <2>2, <2>3
<1>4. ASSUME NEW n \in Indexes, NEW row \in OddRows, OddRow(n, row)
      PROVE  \A k \in Keys : held'[k] <= LogEnd[k] /\ low'[k] <= LogEnd[k]
    BY <1>1, <1>4 DEF OddRow, kafkaVars
<1>5. ASSUME NEW n \in Indexes, Grow(n)
      PROVE  \A k \in Keys : held'[k] <= LogEnd[k] /\ low'[k] <= LogEnd[k]
    BY <1>1, <1>5 DEF Grow, sinkVars
<1>6. ASSUME NEW key \in Keys, Trim(key)
      PROVE  \A k \in Keys : held'[k] <= LogEnd[k] /\ low'[k] <= LogEnd[k]
  <2>1. held' = held /\ low' = [low EXCEPT ![key] = @ + 1] /\ low[key] < LogEnd[key]
    BY <1>6 DEF Trim, sinkVars
  <2> QED
    BY <1>1, <2>1
<1> QED
    BY <1>2, <1>3, <1>4, <1>5, <1>6 DEF Source, Sink

LEMMA SourceInvSource ==
    ASSUME SinkInv, SourceInv, Source PROVE SourceInv'
<1>1. UNCHANGED <<job, captured, backups>>
    BY DEF Source, Sink, Put, PutAgain, CommitOffset, OddRow, LoseRow, Grow, Trim, jobVars
<1> QED
    BY <1>1, SourceBounds DEF SourceInv, RowTypes

LEMMA SourceInvKept ==
    ASSUME SourceInv, UNCHANGED <<held, low, job, captured, backups>> PROVE SourceInv'
    BY DEF SourceInv, RowTypes

\* A Job adds at most the backup there was room for when it began.
LEMMA SourceInvJob ==
    ASSUME SinkInv, JobInv, SourceInv, Capture \/ Check \/ Publish PROVE SourceInv'
<1>1. UNCHANGED <<held, low>>
    BY DEF Capture, Check, Publish, sinkVars, kafkaVars
<1>2. Len(backups) \in Nat /\ MaxBackups \in Nat /\ DOMAIN backups = 1 .. Len(backups)
    BY Appended, BoundAssumption DEF JobInv
<1>3. CASE Capture
  <2>1. /\ DOMAIN captured' = Indexes /\ backups' = backups /\ job' = "captured"
        /\ Len(backups) < MaxBackups
    BY <1>3 DEF Capture
  <2>2. ASSUME NEW n \in Indexes PROVE RowTypes(captured'[n].rows)
    <3> DEFINE c == captured'[n]
               rows == keeper[n]
               observations == observed[n]
    <3>1. c = Checkpoint(Pipelines[n], observations, rows)
      BY <1>3 DEF Capture
    <3>2. RowTypes(rows)
      BY DEF SinkInv, SinkTypes, RowTypes
    <3> HIDE DEF c, rows, observations
    <3>3. c.rows = rows
      BY <3>1 DEF Checkpoint
    <3> QED
      BY <3>2, <3>3 DEF c
  <2> QED
    BY <1>1, <2>1, <2>2 DEF SourceInv, RowTypes
<1>4. CASE Check
  <2>1. /\ backups' = backups /\ job' \in {"idle", "checked"} /\ Len(backups) < MaxBackups
        /\ captured' = captured \/ captured' = <<>>
    BY <1>4 DEF Check, JobEnds, SourceInv
  <2> QED
    BY <1>1, <2>1 DEF SourceInv, RowTypes
<1>5. CASE Publish
  <2>1. job' = "idle" /\ captured' = <<>> /\ Len(backups) < MaxBackups
    BY <1>5 DEF Publish, JobEnds, SourceInv
  <2>2. CASE backups' = backups
    BY <1>1, <2>1, <2>2 DEF SourceInv, RowTypes
  <2>3. CASE backups' = Append(backups, [connectors |-> captured, archive |-> archive])
    <3> DEFINE new == [connectors |-> captured, archive |-> archive]
    <3>1. new.connectors = captured
      OBVIOUS
    <3>2. backups' = Append(backups, new)
      BY <2>3
    <3> HIDE DEF new
    <3>3. /\ IsSeq(backups') /\ DOMAIN backups' = 1 .. Len(backups) + 1
          /\ \A b \in DOMAIN backups : backups'[b] = backups[b]
          /\ backups'[Len(backups) + 1] = new
      BY <3>2, Appended DEF JobInv
    <3>4. Len(backups') = Len(backups) + 1
      BY <1>2, <3>3, Appended
    <3>5. ASSUME NEW b \in DOMAIN backups', NEW n \in DOMAIN backups'[b].connectors
          PROVE  RowTypes(backups'[b].connectors[n].rows)
      <4>1. CASE b \in DOMAIN backups
        BY <3>3, <3>5, <4>1 DEF SourceInv
      <4>2. CASE b = Len(backups) + 1
        BY <3>1, <3>3, <3>5, <4>2 DEF SourceInv
      <4> QED
        BY <1>2, <3>3, <4>1, <4>2
    <3> QED
      BY <1>1, <1>2, <2>1, <3>4, <3>5 DEF SourceInv, RowTypes
  <2> QED
    BY <1>5, <2>2, <2>3 DEF Publish
<1> QED
    BY <1>3, <1>4, <1>5

-----------------------------------------------------------------------------
(* Steps that do not change the plan.                                        *)

SamePlan == UNCHANGED <<request, backups>>

LEMMA PlanIsSame ==
    ASSUME SamePlan
    PROVE  /\ Bounded' = Bounded /\ Archived' = Archived
           /\ Starts' = Starts /\ Goals' = Goals
           /\ \A n : RowsOf(n)' = RowsOf(n) /\ GoalOf(n)' = GoalOf(n)
           /\ PlanFits => PlanFits'
<1>1. /\ Bounded' = Bounded /\ Archived' = Archived /\ Manifest' = Manifest
      /\ request' = request
    BY DEF SamePlan, Bounded, Archived, Manifest
<1>2. Starts' = Starts
    BY <1>1 DEF Starts, PlannedConnectors
<1>3. Goals' = Goals
    BY <1>1, <1>2 DEF Goals
<1>4. \A n : GoalOf(n)' = GoalOf(n)
    BY <1>3 DEF GoalOf
<1>5. \A n : RowsOf(n)' = RowsOf(n)
    BY <1>1, <1>4 DEF RowsOf
<1>6. PlanFits => PlanFits'
    BY <1>1, <1>2, <1>3 DEF PlanFits
<1> QED
    BY <1>1, <1>2, <1>3, <1>4, <1>5, <1>6

LEMMA PlanInvKept ==
    ASSUME PlanInv, SamePlan, restored' => restored PROVE PlanInv'
    BY PlanIsSame DEF PlanInv

\* A connector that is not touched stays right, as a cutover only allows more.
LEMMA FollowKept ==
    ASSUME SamePlan, NEW n \in Indexes, FollowOK(n), follow'[n] = follow[n],
           place = "cutover" => place' = "cutover"
    PROVE  FollowOK(n)'
<1>1. /\ Bounded' = Bounded /\ RowsOf(n)' = RowsOf(n) /\ GoalOf(n)' = GoalOf(n)
    BY PlanIsSame
<1>2. /\ Progressed(n)' <=> Progressed(n)
      /\ \A key : FollowPosition(n, key)' = FollowPosition(n, key)
    BY <1>1 DEF Progressed, FollowPosition
<1> QED
    BY <1>1, <1>2 DEF FollowOK, Planned

LEMMA ReadyKept ==
    ASSUME SamePlan, NEW n \in Indexes, Ready(n), follow'[n] = follow[n]
    PROVE  Ready(n)'
    BY PlanIsSame DEF Ready, Progressed

\* Where nothing is restored, handed over or put, nothing changes.
LEMMA StandingKept ==
    ASSUME SamePlan, NEW n \in Indexes, follow'[n] = follow[n], restored' = restored
    PROVE  \A key : Standing(n, key)' = Standing(n, key)
<1>1. /\ Archived' = Archived /\ GoalOf(n)' = GoalOf(n)
      /\ \A key : FollowPosition(n, key)' = FollowPosition(n, key)
    BY PlanIsSame DEF FollowPosition
<1> QED
    BY <1>1 DEF Standing, Archived, Planned

LEMMA DestKept ==
    ASSUME SamePlan, UNCHANGED <<dest, follow, restored>>, DestInv PROVE DestInv'
<1>1. \A n \in Indexes : \A key : Standing(n, key)' = Standing(n, key)
    BY StandingKept
<1> QED
    BY <1>1 DEF DestInv

\* A recovery does not depend on what becomes of the source.
LEMMA RecoveryRests ==
    ASSUME RecoveryInv, UNCHANGED <<recoveryVars, job, backups>>
    PROVE  RequestInv' /\ PlanInv' /\ FollowInv' /\ DestInv' /\ PlaceInv' /\ ReachedInv'
<1>1. /\ SamePlan
      /\ UNCHANGED <<place, index, existing, retries, restored, dest, follow>>
    BY DEF recoveryVars, planVars, SamePlan
<1>2. RequestInv'
    BY <1>1 DEF RecoveryInv, RequestInv, SamePlan, Bounded
<1>3. PlanInv'
    BY <1>1, PlanInvKept DEF RecoveryInv
<1>4. FollowInv'
    BY <1>1, FollowKept DEF RecoveryInv, FollowInv
<1>5. DestInv'
    BY <1>1, DestKept DEF RecoveryInv
<1>6. ReachedInv'
    BY <1>1, ReadyKept DEF RecoveryInv, ReachedInv, Planned
<1>7. PlaceInv'
    BY <1>1, PlanIsSame DEF RecoveryInv, PlaceInv, Planned, Progressed
<1> QED
    BY <1>2, <1>3, <1>4, <1>5, <1>6, <1>7

\* Nothing is recovered while a Job runs.
LEMMA JobRecovery ==
    ASSUME RecoveryInv, Capture \/ Check \/ Publish
    PROVE  RequestInv' /\ PlanInv' /\ FollowInv' /\ DestInv' /\ PlaceInv' /\ ReachedInv'
<1>1. place = "none"
    BY DEF Capture, Check, Publish, RecoveryInv, RequestInv
<1>2. UNCHANGED <<place, request, index, existing, retries, restored, dest, follow>>
    BY DEF Capture, Check, Publish, recoveryVars, planVars
<1>3. ~restored /\ \A n \in Indexes : follow[n] = Absent
    BY <1>1 DEF RecoveryInv, RequestInv
<1>4. RequestInv'
    BY <1>1, <1>2, <1>3 DEF RecoveryInv, RequestInv
<1>5. \A n \in Indexes : \A key : Standing(n, key) = 0 /\ Standing(n, key)' = 0
    BY <1>2, <1>3 DEF Standing
<1>6. DestInv'
    BY <1>2, <1>5 DEF RecoveryInv, DestInv
<1> QED
    BY <1>1, <1>2, <1>3, <1>4, <1>6
       DEF PlanInv, FollowInv, PlaceInv, ReachedInv, HandingOver, Handing

-----------------------------------------------------------------------------
(* The recovery's steps.                                                     *)

LEMMA RequestNext ==
    ASSUME RecoveryInv, Request PROVE RecoveryInv'
<1>1. /\ place = "none" /\ job = "idle" /\ place' = "plan"
      /\ UNCHANGED <<held, low, job, captured, backups>>
      /\ UNCHANGED <<index, existing, retries, restored, dest, follow>>
    BY DEF Request, sinkVars, kafkaVars, jobVars
<1>2. /\ request'.backup \in DOMAIN backups
      /\ request'.mode = "PointInTime" => request'.targets \in Requests
    BY DEF Request
<1>3. ~restored /\ \A n \in Indexes : follow[n] = Absent
    BY <1>1 DEF RecoveryInv, RequestInv
<1>4. SourceInv'
    BY <1>1, SourceInvKept DEF RecoveryInv
<1>5. RequestInv'
    BY <1>1, <1>2, <1>3 DEF RecoveryInv, RequestInv, Bounded
<1>6. \A n \in Indexes : \A key : Standing(n, key) = 0 /\ Standing(n, key)' = 0
    BY <1>1, <1>3 DEF Standing
<1>7. DestInv'
    BY <1>1, <1>6 DEF RecoveryInv, DestInv
<1> QED
    BY <1>1, <1>3, <1>4, <1>5, <1>7
       DEF RecoveryInv, PlanInv, FollowInv, PlaceInv, ReachedInv, HandingOver, Handing

LEMMA InterruptNext ==
    ASSUME RecoveryInv, Interrupt PROVE RecoveryInv'
<1>1. /\ place \in HandingOver \cup {"done"} /\ place' = "plan" /\ existing' = {}
      /\ retries' = retries \/ (retries' = retries + 1 /\ retries < MaxRetries)
      /\ SamePlan
      /\ UNCHANGED <<held, low, job, captured, backups, index, restored, dest, follow>>
    BY DEF Interrupt, sinkVars, kafkaVars, jobVars, SamePlan, HandingOver
<1>2. SourceInv'
    BY <1>1, SourceInvKept DEF RecoveryInv
<1>3. RequestInv'
  <2>1. retries' \in 0 .. MaxRetries /\ UniqueKeys(existing')
    BY <1>1, BoundAssumption DEF RecoveryInv, RequestInv, UniqueKeys
  <2>2. place # "none" /\ restored
    BY <1>1 DEF RecoveryInv, RequestInv, HandingOver, Handing
  <2> QED
    BY <1>1, <2>1, <2>2 DEF RecoveryInv, RequestInv, SamePlan, Bounded
<1>4. PlanInv'
    BY <1>1, PlanInvKept DEF RecoveryInv
<1>5. FollowInv'
    BY <1>1, FollowKept DEF RecoveryInv, FollowInv, HandingOver, Handing
<1>6. DestInv'
    BY <1>1, DestKept DEF RecoveryInv
<1>7. PlaceInv' /\ ReachedInv'
    BY <1>1 DEF PlaceInv, ReachedInv, HandingOver, Handing
<1> QED
    BY <1>2, <1>3, <1>4, <1>5, <1>6, <1>7 DEF RecoveryInv

\* The state of a connector says nothing about where it is.
LEMMA CutoverNext ==
    ASSUME RecoveryInv, Cutover PROVE RecoveryInv'
<1>1. /\ place = "done" /\ place' = "cutover" /\ SamePlan
      /\ UNCHANGED <<held, low, job, captured, backups>>
      /\ UNCHANGED <<index, existing, retries, restored, dest>>
      /\ DOMAIN follow' = Indexes
      /\ \A n \in Indexes :
            follow'[n] = IF Planned(n) THEN [follow[n] EXCEPT !.state = "RUNNING"] ELSE follow[n]
    BY DEF Cutover, sinkVars, kafkaVars, jobVars, SamePlan
<1>2. /\ \A n \in Indexes : Planned(n) <=> follow[n] # Absent
      /\ \A n \in Indexes : Planned(n) => Ready(n)
    BY <1>1 DEF RecoveryInv, FollowInv, FollowOK, ReachedInv, Ready
<1>3. ASSUME NEW n \in Indexes, Planned(n)
      PROVE  /\ follow'[n].state = "RUNNING" /\ follow'[n].rows = follow[n].rows
             /\ follow'[n].offsets = follow[n].offsets
             /\ DOMAIN follow'[n] = DOMAIN follow[n]
             /\ follow'[n] # Absent
  <2>1. DOMAIN follow[n] = {"state", "rows", "offsets"}
    BY <1>2, <1>3 DEF RecoveryInv, FollowInv, FollowOK
  <2>2. follow'[n] = [follow[n] EXCEPT !.state = "RUNNING"]
    BY <1>1, <1>3
  <2> QED
    BY <2>1, <2>2 DEF Absent
<1>4. SourceInv'
    BY <1>1, SourceInvKept DEF RecoveryInv
<1>5. RequestInv'
    BY <1>1 DEF RecoveryInv, RequestInv, SamePlan, Bounded
<1>6. PlanInv'
    BY <1>1, PlanInvKept DEF RecoveryInv
<1>7. ASSUME NEW n \in Indexes, follow'[n] # Absent PROVE FollowOK(n)'
  <2>1. Planned(n) /\ FollowOK(n)
    BY <1>1, <1>2, <1>7 DEF RecoveryInv, FollowInv
  <2>2. RowsOf(n)' = RowsOf(n) /\ GoalOf(n)' = GoalOf(n)
    BY <1>1, PlanIsSame
  <2>3. /\ Progressed(n)' <=> Progressed(n)
        /\ \A key : FollowPosition(n, key)' = FollowPosition(n, key)
    BY <1>3, <2>1, <2>2 DEF Progressed, FollowPosition
  <2>4. follow[n].offsets # {} /\ Progressed(n)
    BY <1>2, <2>1 DEF Ready
  <2> QED
    BY <1>1, <1>3, <2>1, <2>2, <2>3, <2>4 DEF FollowOK, Planned
<1>8. ASSUME NEW n \in Indexes, NEW key PROVE Standing(n, key)' = Standing(n, key)
  <2>1. CASE Planned(n)
    <3>1. /\ FollowPosition(n, key)' = FollowPosition(n, key)
          /\ GoalOf(n)' = GoalOf(n) /\ follow'[n].offsets = follow[n].offsets
          /\ follow[n] # Absent /\ follow'[n] # Absent
      BY <1>1, <1>2, <1>3, <2>1, PlanIsSame DEF FollowPosition
    <3> QED
      BY <1>1, <2>1, <3>1 DEF Standing, Planned
  <2>2. CASE ~Planned(n)
    BY <2>2 DEF Standing, Planned
  <2> QED
    BY <2>1, <2>2
<1>9. DestInv'
    BY <1>1, <1>8 DEF RecoveryInv, DestInv
<1>10. ReachedInv'
  <2>1. ASSUME NEW n \in Indexes, Planned(n) PROVE Ready(n)'
    BY <1>1, <1>2, <1>3, <2>1, PlanIsSame DEF Ready, Progressed
  <2> QED
    BY <2>1 DEF ReachedInv, Planned
<1>11. PlaceInv'
    BY <1>1 DEF PlaceInv, HandingOver, Handing
<1> QED
    BY <1>4, <1>5, <1>6, <1>7, <1>9, <1>10, <1>11 DEF RecoveryInv, FollowInv

\* Partitions are in one pipeline.
LEMMA CapturedApart ==
    /\ \A n \in Indexes : Captured(n) \subseteq Keys
    /\ \A n, m \in Indexes : \A key : key \in Captured(n) /\ key \in Captured(m) => n = m
    BY KeysAreOwn DEF Captured

\* An accepted plan fits, whether its goals are asked for or where the archive ends.
LEMMA AcceptedFits ==
    ASSUME JobInv, RecoveryInv, place = "plan", PlanAccepted
    PROVE  PlanFits
<1>1. /\ JobInv /\ SourceInv /\ request.backup \in DOMAIN backups
      /\ Bounded => request.targets \in Requests
    BY DEF RecoveryInv, RequestInv
<1>2. Bounded => TargetsAccepted(Starts, request.targets)
    BY DEF PlanAccepted
<1>3. ASSUME NEW key \in DOMAIN Goals
      PROVE  Goals[key] \in Nat /\ Starts[key] <= Goals[key] /\ Goals[key] <= LogEnd[key]
  <2>1. /\ key \in DOMAIN Starts
        /\ RangeAccepted(Starts[key], Goals[key], low[key], LogEnd[key])
    BY DEF PlanAccepted
  <2>2. Starts[key] \in Nat
    <3>1. PICK n \in RecoveredPipelines : key \in Captured(n)
      BY <1>1, <2>1, StartsAre
    <3>2. key \in Keys
      BY <3>1, CapturedApart DEF RecoveredPipelines
    <3> QED
      BY <1>1, <2>1, <3>2, StartsAre, ManifestIs
  <2>3. CASE Bounded
    <3> DEFINE targets == request.targets
               chosen == CHOOSE i \in DOMAIN targets : targets[i].key = key
    <3>1. Goals = Vector(targets)
      BY <2>3 DEF Goals
    <3>2. /\ \E i \in DOMAIN targets : targets[i].key = key
          /\ Goals[key] = targets[chosen].offset
      BY <3>1 DEF Vector
    <3>3. chosen \in DOMAIN targets /\ targets[chosen].key = key
      BY <3>2
    <3>4. targets \in Requests /\ \A i \in DOMAIN targets : targets[i].offset >= Starts[targets[i].key]
      BY <1>1, <1>2, <2>3 DEF TargetsAccepted
    <3> HIDE DEF targets, chosen
    <3>5. targets[chosen].offset \in Unsigned /\ targets[chosen].offset >= Starts[key]
      BY <3>3, <3>4, RequestAssumption
    <3>6. Goals[key] \in Nat /\ Starts[key] <= Goals[key]
      BY <2>2, <3>2, <3>5, WidthAssumption DEF Unsigned, MaxUnsigned, chosen
    <3> QED
      BY <2>1, <3>6 DEF RangeAccepted
  <2>4. CASE ~Bounded
    <3>1. Goals[key] = Starts[key]
      BY <2>4 DEF Goals
    <3> QED
      BY <2>1, <2>2, <3>1 DEF RangeAccepted
  <2> QED
    BY <2>3, <2>4
<1> QED
    BY <1>2, <1>3 DEF PlanFits

\* The archive is restored where nothing was before.
LEMMA RestoredIs ==
    ASSUME NEW n \in Indexes, NEW key \in Captured(n)
    PROVE  Restored(key) = FirstRecords(IF Planned(n) THEN Archived[key] ELSE 0)
<1>1. (\E m \in Indexes : Planned(m) /\ key \in KeysOf(Pipelines[m])) <=> Planned(n)
    BY CapturedApart DEF Captured
<1> QED
    BY <1>1, NoRecords DEF Restored, Archived

LEMMA PlanNext ==
    ASSUME JobInv, RecoveryInv, Plan PROVE RecoveryInv'
<1>1. /\ place = "plan" /\ SamePlan
      /\ UNCHANGED <<held, low, job, captured, backups, request, existing, retries, follow>>
    BY DEF Plan, sinkVars, kafkaVars, jobVars, SamePlan
<1>2. SourceInv'
    BY <1>1, SourceInvKept DEF RecoveryInv
<1>3. FollowInv'
    BY <1>1, FollowKept DEF RecoveryInv, FollowInv
<1>4. CASE ~PlanAccepted /\ place' = "rejected" /\ UNCHANGED <<index, restored, dest>>
  <2>1. RequestInv'
    BY <1>1, <1>4 DEF RecoveryInv, RequestInv, SamePlan, Bounded
  <2>2. PlanInv'
    BY <1>1, <1>4, PlanInvKept DEF RecoveryInv
  <2>3. DestInv'
    BY <1>1, <1>4, DestKept DEF RecoveryInv
  <2>4. PlaceInv' /\ ReachedInv'
    BY <1>4 DEF PlaceInv, ReachedInv, HandingOver, Handing
  <2> QED
    BY <1>2, <1>3, <2>1, <2>2, <2>3, <2>4 DEF RecoveryInv
<1>5. CASE /\ PlanAccepted /\ place' = "handover" /\ index' = 1 /\ restored' = TRUE
           /\ dest' = IF restored THEN dest ELSE [k \in Keys |-> Restored(k)]
  <2>1. RequestInv'
    BY <1>1, <1>5, PipelineAssumption
       DEF RecoveryInv, RequestInv, SamePlan, Bounded, HandingOver, Handing
  <2>2. PlanInv'
    BY <1>1, <1>5, AcceptedFits, PlanIsSame DEF PlanInv
  <2>3. PlaceInv' /\ ReachedInv'
    BY <1>5, PipelineAssumption DEF PlaceInv, ReachedInv
  <2>4. CASE restored
    BY <1>1, <1>2, <1>3, <1>5, <2>1, <2>2, <2>3, <2>4, DestKept DEF RecoveryInv, RequestInv
  <2>5. CASE ~restored
    <3>1. /\ \A n \in Indexes : follow'[n] = Absent
          /\ dest' = [k \in Keys |-> Restored(k)]
      BY <1>1, <1>5, <2>5 DEF RecoveryInv, RequestInv
    <3>2. ASSUME NEW n \in Indexes, NEW key \in Captured(n)
          PROVE  dest'[key] = FirstRecords(Standing(n, key)')
      <4>1. Standing(n, key)' = IF Planned(n) THEN Archived[key] ELSE 0
        BY <1>1, <1>5, <3>1 DEF Standing, Planned, Archived
      <4>2. dest'[key] = Restored(key)
        BY <3>1, CapturedApart
      <4> QED
        BY <4>1, <4>2, RestoredIs
    <3>3. ASSUME NEW key \in Keys, \A n \in Indexes : key \notin Captured(n)
          PROVE  dest'[key] = <<>>
      BY <3>1, <3>3 DEF Restored, Captured
    <3>4. DestInv'
      BY <3>2, <3>3 DEF DestInv
    <3> QED
      BY <1>2, <1>3, <2>1, <2>2, <2>3, <3>4 DEF RecoveryInv
  <2> QED
    BY <2>4, <2>5
<1> QED
    BY <1>4, <1>5 DEF Plan

\* What stands in the destination is a number of records.
LEMMA StandingInLog ==
    ASSUME JobInv, RecoveryInv, NEW n \in Indexes, NEW key \in Captured(n)
    PROVE  /\ Standing(n, key) \in Nat /\ Standing(n, key) <= LogEnd[key]
           /\ LogEnd[key] \in 0 .. MaxSigned /\ key \in Keys
<1>1. key \in Keys /\ LogEnd[key] \in 0 .. MaxSigned
    BY CapturedApart, BoundAssumption
<1>2. CASE ~restored \/ ~Planned(n)
    BY <1>1, <1>2 DEF Standing
<1>3. CASE restored /\ Planned(n) /\ follow[n] = Absent
  <2>1. /\ SourceInv /\ PlanFits /\ request.backup \in DOMAIN backups /\ n \in RecoveredPipelines
    BY <1>3 DEF RecoveryInv, RequestInv, PlanInv, RecoveredPipelines
  <2>2. /\ Archived[key] \in Nat /\ GoalOf(n)[key] \in Nat
        /\ Archived[key] <= GoalOf(n)[key] /\ GoalOf(n)[key] <= LogEnd[key]
    BY <2>1, GoalsAre
  <2>3. Standing(n, key) = Archived[key]
    BY <1>3 DEF Standing, Archived
  <2> QED
    BY <1>1, <2>2, <2>3
<1>4. CASE restored /\ Planned(n) /\ follow[n] # Absent
  <2>1. /\ SourceInv /\ PlanFits /\ request.backup \in DOMAIN backups /\ n \in RecoveredPipelines
    BY <1>4 DEF RecoveryInv, RequestInv, PlanInv, RecoveredPipelines
  <2>2. GoalOf(n)[key] \in Nat /\ GoalOf(n)[key] <= LogEnd[key]
    BY <2>1, GoalsAre
  <2>3. FollowPosition(n, key) \in Nat /\ FollowPosition(n, key) <= LogEnd[key]
    BY <1>4 DEF RecoveryInv, FollowInv, FollowOK
  <2> QED
    BY <1>1, <1>4, <2>2, <2>3 DEF Standing
<1> QED
    BY <1>2, <1>3, <1>4

\* During an attempt the plan fits and the archive is restored.
LEMMA InAttempt ==
    ASSUME RecoveryInv, place \in HandingOver
    PROVE  /\ restored /\ PlanFits /\ SourceInv /\ place # "cutover"
           /\ index \in Indexes /\ request.backup \in DOMAIN backups
           /\ DOMAIN follow = Indexes /\ DOMAIN dest = Keys
    BY DEF RecoveryInv, RequestInv, PlanInv, HandingOver, Handing

\* What no request of an attempt touches.
handedOver == <<held, low, job, captured, backups, request, retries, restored>>

LEMMA AttemptKeeps ==
    ASSUME RecoveryInv, place \in HandingOver, UNCHANGED handedOver,
           place' \in HandingOver \cup {"done"}, index' \in Indexes, UniqueKeys(existing'),
           DOMAIN dest' = Keys, DOMAIN follow' = Indexes
    PROVE  SourceInv' /\ RequestInv' /\ PlanInv'
<1>1. SamePlan /\ UNCHANGED <<held, low, job, captured, backups, request, retries, restored>>
    BY DEF handedOver, SamePlan
<1>2. SourceInv' /\ PlanInv'
    BY <1>1, SourceInvKept, PlanInvKept DEF RecoveryInv
<1>3. restored /\ place # "none" /\ place' # "none"
    BY InAttempt DEF HandingOver, Handing
<1>4. RequestInv'
    BY <1>1, <1>3 DEF RecoveryInv, RequestInv, Bounded
<1> QED
    BY <1>2, <1>4

\* The loop goes on only after the connector it was at is ready ...
LEMMA AdvancesNext ==
    ASSUME RecoveryInv, SamePlan, place \in Handing, Advances, NEW m \in Indexes, m = index,
           \A n \in Indexes : n # m => follow'[n] = follow[n],
           Planned(m) => Ready(m)'
    PROVE  /\ place' \in {"handover", "done"} /\ index' \in Indexes /\ existing' = {}
           /\ PlaceInv' /\ ReachedInv'
<1>1. Indexes = 1 .. Len(Pipelines) /\ Len(Pipelines) \in Nat
    BY PipelineAssumption
<1>2. ASSUME NEW n \in Indexes, Planned(n), n <= index PROVE Ready(n)'
  <2>1. CASE n = m
    BY <1>2, <2>1
  <2>2. CASE n < m
    BY <1>2, <2>2, ReadyKept DEF RecoveryInv, ReachedInv, HandingOver
  <2> QED
    BY <1>1, <1>2, <2>1, <2>2
<1>3. existing' = {}
    BY DEF Advances
<1>4. CASE index < Len(Pipelines)
  <2>1. place' = "handover" /\ index' = index + 1
    BY <1>4 DEF Advances
  <2> QED
    BY <1>1, <1>2, <1>3, <1>4, <2>1 DEF PlaceInv, ReachedInv, Planned
<1>5. CASE index = Len(Pipelines)
  <2>1. place' = "done" /\ index' = index
    BY <1>5 DEF Advances
  <2> QED
    BY <1>1, <1>2, <1>3, <1>5, <2>1 DEF PlaceInv, ReachedInv, Planned, HandingOver, Handing
<1> QED
    BY <1>1, <1>4, <1>5

\* ... and stays with it before.
LEMMA ContinuesNext ==
    ASSUME RecoveryInv, SamePlan, place \in Handing, place' \in HandingOver, index' = index,
           \A n \in Indexes : n # index => follow'[n] = follow[n]
    PROVE  ReachedInv'
<1>1. Indexes = 1 .. Len(Pipelines) /\ Len(Pipelines) \in Nat /\ index \in Indexes
    BY InAttempt, PipelineAssumption DEF HandingOver
<1>2. ASSUME NEW n \in Indexes, Planned(n), n < index PROVE Ready(n)'
    BY <1>1, <1>2, ReadyKept DEF RecoveryInv, ReachedInv, HandingOver
<1>3. place' \notin {"done", "cutover"}
    BY DEF HandingOver, Handing
<1> QED
    BY <1>2, <1>3 DEF ReachedInv, Planned

\* A connector that is changed, but not moved, leaves the destination where it stands.
LEMMA ConnectorChanged ==
    ASSUME RecoveryInv, SamePlan, place \in HandingOver, UNCHANGED <<dest, restored>>,
           NEW m \in Indexes, \A n \in Indexes : n # m => follow'[n] = follow[n],
           FollowOK(m)', \A key \in Captured(m) : Standing(m, key)' = Standing(m, key)
    PROVE  FollowInv' /\ DestInv'
<1>1. ASSUME NEW n \in Indexes, follow'[n] # Absent PROVE FollowOK(n)'
  <2>1. CASE n # m
    BY <1>1, <2>1, InAttempt, FollowKept DEF RecoveryInv, FollowInv
  <2> QED
    BY <2>1
<1>2. \A n \in Indexes : \A key \in Captured(n) : Standing(n, key)' = Standing(n, key)
    BY StandingKept
<1> QED
    BY <1>1, <1>2 DEF FollowInv, RecoveryInv, DestInv

LEMMA ConnectorsRest ==
    ASSUME RecoveryInv, SamePlan, place \in HandingOver, UNCHANGED <<follow, dest, restored>>
    PROVE  FollowInv' /\ DestInv'
    BY InAttempt, FollowKept, DestKept DEF RecoveryInv, FollowInv

\* The connector an attempt is at has been handed what is right for it.
LEMMA HandedNow ==
    ASSUME JobInv, RecoveryInv, place \in HandingOver, NEW m \in Indexes, Planned(m)
    PROVE  /\ m \in RecoveredPipelines /\ Handed(m) /\ DOMAIN GoalOf(m) = Captured(m)
           /\ \A key \in Captured(m) :
                 /\ GoalOf(m)[key] \in Nat /\ GoalOf(m)[key] <= LogEnd[key]
                 /\ LogEnd[key] \in Nat
<1>1. /\ SourceInv /\ PlanFits /\ request.backup \in DOMAIN backups /\ m \in RecoveredPipelines
    BY InAttempt DEF RecoveredPipelines
<1> QED
    BY <1>1, HandedIsRight, GoalsAre

\* A replay adds to a partition what is between the archive and the goal.
LEMMA ReplayedJoins ==
    ASSUME JobInv, RecoveryInv, place \in HandingOver, NEW m \in RecoveredPipelines,
           follow[m] = Absent, NEW n \in Indexes, NEW key \in Captured(n)
    PROVE  dest[key] \o Replayed(m, key)
             = FirstRecords(IF n = m THEN GoalOf(m)[key] ELSE Standing(n, key))
<1>1. /\ SourceInv /\ PlanFits /\ request.backup \in DOMAIN backups /\ restored
      /\ m \in Indexes /\ Planned(m) /\ dest[key] = FirstRecords(Standing(n, key))
    BY InAttempt DEF RecoveryInv, RecoveredPipelines, DestInv
<1>2. DOMAIN GoalOf(m) = Captured(m)
    BY <1>1, GoalsAre
<1>3. CASE n = m
  <2>1. Standing(n, key) = Archived[key]
    BY <1>1, <1>3 DEF Standing, Archived
  <2> DEFINE a == Archived[key]
             b == GoalOf(m)[key]
  <2>2. a \in Nat /\ b \in Nat /\ a <= b /\ Starts[key] = a
    BY <1>1, <1>3, GoalsAre
  <2>3. Replayed(m, key) = [i \in 1 .. b - a |-> a + i - 1]
    BY <1>2, <1>3, <2>2 DEF Replayed
  <2>4. dest[key] = FirstRecords(a)
    BY <1>1, <2>1
  <2>5. ASSUME NEW x, NEW y, x = a, y = b
        PROVE  FirstRecords(x) \o [i \in 1 .. y - x |-> x + i - 1] = FirstRecords(y)
    BY <2>2, <2>5, FirstRecordsJoin
  <2> HIDE DEF a, b
  <2>6. dest[key] \o Replayed(m, key) = FirstRecords(b)
    BY <2>3, <2>4, <2>5
  <2> QED
    BY <1>3, <2>6 DEF b
<1>4. CASE n # m
  <2>1. Replayed(m, key) = <<>>
    BY <1>1, <1>2, <1>4, CapturedApart DEF Replayed
  <2>2. Standing(n, key) \in Nat
    BY StandingInLog
  <2> QED
    BY <1>1, <1>4, <2>1, <2>2, NothingJoined
<1> QED
    BY <1>3, <1>4

\* A created connector stands where its replay ended, before it has offsets.
LEMMA CreatedNext ==
    ASSUME JobInv, RecoveryInv, SamePlan, place = "handover", UNCHANGED restored,
           NEW m \in Indexes, Planned(m), follow[m] = Absent,
           follow' = [follow EXCEPT ![m] = [state |-> "STOPPED", rows |-> {}, offsets |-> {}]],
           dest' = [k \in Keys |-> dest[k] \o Replayed(m, k)], place' = "stop"
    PROVE  FollowInv' /\ DestInv' /\ follow'[m] # Absent
<1>1. /\ m \in RecoveredPipelines /\ DOMAIN GoalOf(m) = Captured(m)
      /\ restored /\ restored' /\ DOMAIN follow = Indexes /\ place \in HandingOver
      /\ \A key \in Captured(m) : LogEnd[key] \in Nat
    BY InAttempt, HandedNow DEF HandingOver, Handing
<1>2. /\ follow'[m] = [state |-> "STOPPED", rows |-> {}, offsets |-> {}]
      /\ \A n \in Indexes : n # m => follow'[n] = follow[n]
    BY <1>1
<1>3. follow'[m] # Absent
    BY <1>2 DEF Absent
<1>4. FollowOK(m)'
  <2>1. \A key : FollowPosition(m, key)' = 0
    BY <1>2 DEF FollowPosition, Position, Has
  <2>2. Planned(m)' /\ UniqueKeys(follow'[m].rows) /\ UniqueKeys(follow'[m].offsets)
    BY <1>2 DEF Planned, UniqueKeys
  <2> QED
    BY <1>1, <1>2, <2>1, <2>2 DEF FollowOK
<1>5. ASSUME NEW n \in Indexes, follow'[n] # Absent PROVE FollowOK(n)'
  <2>1. CASE n # m
    BY <1>2, <1>5, <2>1, FollowKept DEF RecoveryInv, FollowInv
  <2> QED
    BY <1>4, <2>1
<1>6. ASSUME NEW n \in Indexes, NEW key \in Captured(n)
      PROVE  Standing(n, key)' = IF n = m THEN GoalOf(m)[key] ELSE Standing(n, key)
  <2>1. CASE n = m
    BY <1>1, <1>2, <1>3, <2>1, PlanIsSame DEF Standing, Planned
  <2>2. CASE n # m
    BY <1>2, <2>2, StandingKept
  <2> QED
    BY <2>1, <2>2
<1>7. ASSUME NEW n \in Indexes, NEW key \in Captured(n)
      PROVE  dest'[key] = FirstRecords(Standing(n, key)')
  <2>1. dest'[key] = dest[key] \o Replayed(m, key)
    BY CapturedApart
  <2>2. dest[key] \o Replayed(m, key)
          = FirstRecords(IF n = m THEN GoalOf(m)[key] ELSE Standing(n, key))
    BY <1>1, ReplayedJoins
  <2> QED
    BY <1>6, <2>1, <2>2
<1>8. ASSUME NEW key \in Keys, \A n \in Indexes : key \notin Captured(n)
      PROVE  dest'[key] = <<>>
  <2>1. Replayed(m, key) = <<>>
    BY <1>1, <1>8 DEF Replayed
  <2>2. dest[key] = <<>>
    BY <1>8 DEF RecoveryInv, DestInv
  <2> QED
    BY <2>1, <2>2
<1> QED
    BY <1>3, <1>5, <1>7, <1>8 DEF FollowInv, DestInv

LEMMA CreateNext ==
    ASSUME JobInv, RecoveryInv, Create PROVE RecoveryInv'
<1>1. /\ place = "handover" /\ place \in Handing /\ place \in HandingOver
      /\ SamePlan /\ UNCHANGED handedOver /\ UNCHANGED restored
    BY DEF Create, handedVars, handedOver, sinkVars, kafkaVars, jobVars, SamePlan, HandingOver,
           Handing
<1>2. /\ DOMAIN follow = Indexes /\ DOMAIN dest = Keys
    BY <1>1, InAttempt
<1>3. PICK m \in Indexes : m = index
    BY <1>1, InAttempt
<1>4. CASE ~Planned(m) /\ Advances /\ UNCHANGED <<follow, dest>>
  <2>1. /\ place' \in {"handover", "done"} /\ index' \in Indexes /\ existing' = {}
        /\ PlaceInv' /\ ReachedInv'
    BY <1>1, <1>3, <1>4, AdvancesNext
  <2>2. SourceInv' /\ RequestInv' /\ PlanInv'
    BY <1>1, <1>2, <1>4, <2>1, AttemptKeeps DEF UniqueKeys, HandingOver, Handing
  <2> QED
    BY <1>1, <1>4, <2>1, <2>2, ConnectorsRest DEF RecoveryInv
<1>5. CASE /\ Planned(m) /\ follow[m] = Absent
           /\ existing' = {} /\ place' = "stop" /\ UNCHANGED index
           /\ follow' = [follow EXCEPT ![m].state = "STOPPED"]
           /\ dest' = [k \in Keys |-> dest[k] \o Replayed(m, k)]
  <2>1. place' = "stop" /\ index' = index /\ existing' = {}
    BY <1>5
  <2>2. follow' = [follow EXCEPT ![m] = [state |-> "STOPPED", rows |-> {}, offsets |-> {}]]
    <3>1. [Absent EXCEPT !.state = "STOPPED"]
            = [state |-> "STOPPED", rows |-> {}, offsets |-> {}]
      BY DEF Absent
    <3>2. follow' = [follow EXCEPT ![m] = [Absent EXCEPT !.state = "STOPPED"]]
      BY <1>2, <1>5
    <3> QED
      BY <3>1, <3>2
  <2>3. FollowInv' /\ DestInv' /\ follow'[m] # Absent
    BY <1>1, <1>5, <2>1, <2>2, CreatedNext
  <2>5. SourceInv' /\ RequestInv' /\ PlanInv'
    BY <1>1, <1>2, <1>3, <1>5, <2>1, AttemptKeeps DEF UniqueKeys, HandingOver, Handing
  <2>6. ReachedInv'
    BY <1>1, <1>2, <1>3, <1>5, <2>1, ContinuesNext DEF HandingOver, Handing
  <2>7. PlaceInv'
    BY <1>2, <1>3, <1>5, <2>1, <2>2, <2>3 DEF PlaceInv, Planned
  <2> QED
    BY <2>3, <2>5, <2>6, <2>7 DEF RecoveryInv
<1>6. CASE /\ Planned(m) /\ follow[m] # Absent /\ existing' = follow[m].rows
           /\ place' = IF existing' = {} THEN "stop"
                       ELSE IF Bounded THEN "hydrate" ELSE "progress"
           /\ UNCHANGED <<index, follow, dest>>
  <2>1. place' \in {"stop", "hydrate", "progress"} /\ place' \in HandingOver
    BY <1>6 DEF HandingOver, Handing
  <2>2. FollowOK(m)
    BY <1>6 DEF RecoveryInv, FollowInv
  <2>3. SourceInv' /\ RequestInv' /\ PlanInv'
    BY <1>1, <1>2, <1>3, <1>6, <2>1, <2>2, AttemptKeeps DEF FollowOK
  <2>4. FollowInv' /\ DestInv'
    BY <1>1, <1>6, ConnectorsRest
  <2>5. ReachedInv'
    BY <1>1, <1>6, <2>1, ContinuesNext
  <2>6. PlaceInv'
    <3>1. /\ Bounded' = Bounded /\ RowsOf(m)' = RowsOf(m) /\ GoalOf(m)' = GoalOf(m)
          /\ index' = m /\ follow' = follow
      BY <1>1, <1>3, <1>6, PlanIsSame
    <3>2. CASE follow[m].rows = {}
      BY <1>3, <1>6, <2>1, <3>1, <3>2 DEF PlaceInv, Planned
    <3>3. CASE follow[m].rows # {} /\ Bounded
      <4>1. follow[m].offsets = Offsets(GoalOf(m)) /\ follow[m].state = "STOPPED"
        BY <1>1, <2>2, <3>3 DEF FollowOK
      <4>2. place' = "hydrate" /\ existing' # {} /\ follow[m].offsets # {}
        BY <1>6, <2>2, <3>3 DEF FollowOK
      <4> QED
        BY <1>6, <3>1, <3>3, <4>1, <4>2 DEF PlaceInv, Planned
    <3>4. CASE follow[m].rows # {} /\ ~Bounded
      <4>1. place' = "progress" /\ follow[m].offsets # {} /\ Progressed(m)
        BY <1>6, <2>2, <3>4 DEF FollowOK
      <4> QED
        BY <1>6, <3>1, <3>4, <4>1 DEF PlaceInv, Planned, Progressed
    <3> QED
      BY <3>2, <3>3, <3>4
  <2> QED
    BY <2>3, <2>4, <2>5, <2>6 DEF RecoveryInv
<1> QED
    BY <1>3, <1>4, <1>5, <1>6 DEF Create

\* A step of the connector at hand after its creation.
LEMMA AtConnector ==
    ASSUME JobInv, RecoveryInv, place \in HandingOver \ {"handover"}
    PROVE  /\ index \in Indexes /\ Planned(index) /\ follow[index] # Absent
           /\ FollowOK(index) /\ Handed(index)
           /\ DOMAIN follow = Indexes /\ DOMAIN dest = Keys /\ restored
<1>1. /\ index \in Indexes /\ Planned(index) /\ follow[index] # Absent
      /\ DOMAIN follow = Indexes /\ DOMAIN dest = Keys /\ restored
    BY InAttempt DEF RecoveryInv, PlaceInv
<1> QED
    BY <1>1, HandedNow DEF RecoveryInv, FollowInv

\* The state of a connector says nothing about where it is.
LEMMA StateChanged ==
    ASSUME JobInv, RecoveryInv, SamePlan, place \in HandingOver \ {"handover"},
           place' # "cutover", UNCHANGED restored,
           NEW m \in Indexes, m = index, NEW state \in {"STOPPED", "RUNNING"},
           follow' = [follow EXCEPT ![m].state = state],
           state = "RUNNING" => follow[m].offsets # {} /\ Progressed(m) /\ ~Bounded
    PROVE  /\ FollowOK(m)' /\ follow'[m] # Absent /\ follow'[m].state = state
           /\ follow'[m].rows = follow[m].rows /\ follow'[m].offsets = follow[m].offsets
           /\ \A n \in Indexes : n # m => follow'[n] = follow[n]
           /\ DOMAIN follow' = Indexes
           /\ \A key \in Captured(m) : Standing(m, key)' = Standing(m, key)
<1>1. FollowOK(m) /\ Planned(m) /\ follow[m] # Absent /\ DOMAIN follow = Indexes
    BY AtConnector
<1>2. /\ Bounded' = Bounded /\ RowsOf(m)' = RowsOf(m) /\ GoalOf(m)' = GoalOf(m)
    BY PlanIsSame
<1>3. DOMAIN follow[m] = {"state", "rows", "offsets"}
    BY <1>1 DEF FollowOK
<1>4. /\ follow'[m].state = state /\ DOMAIN follow'[m] = {"state", "rows", "offsets"}
      /\ follow'[m].rows = follow[m].rows /\ follow'[m].offsets = follow[m].offsets
      /\ \A n \in Indexes : n # m => follow'[n] = follow[n]
      /\ DOMAIN follow' = Indexes
    BY <1>1, <1>3
<1>5. /\ Progressed(m)' <=> Progressed(m)
      /\ \A key : FollowPosition(m, key)' = FollowPosition(m, key)
    BY <1>2, <1>4 DEF Progressed, FollowPosition
<1>6. FollowOK(m)'
    BY <1>1, <1>2, <1>4, <1>5, InAttempt DEF FollowOK, Planned
<1>7. follow'[m] # Absent
    BY <1>4 DEF Absent
<1>8. \A key \in Captured(m) : Standing(m, key)' = Standing(m, key)
    BY <1>1, <1>2, <1>4, <1>5, <1>7 DEF Standing, Planned
<1> QED
    BY <1>4, <1>6, <1>7, <1>8

LEMMA StopNext ==
    ASSUME JobInv, RecoveryInv, Stop PROVE RecoveryInv'
<1>1. /\ place = "stop" /\ place \in Handing /\ place \in HandingOver \ {"handover"}
      /\ SamePlan /\ UNCHANGED handedOver /\ UNCHANGED <<dest, restored>>
      /\ place' = "patch" /\ place' \in HandingOver /\ UNCHANGED <<index, existing>>
    BY DEF Stop, Continues, handedVars, handedOver, sinkVars, kafkaVars, jobVars, SamePlan,
           HandingOver, Handing
<1>2. PICK m \in Indexes : m = index
    BY <1>1, AtConnector
<1>3. follow' = [follow EXCEPT ![m].state = "STOPPED"]
    BY <1>2 DEF Stop
<1>4. /\ FollowOK(m)' /\ follow'[m] # Absent /\ follow'[m].state = "STOPPED"
      /\ follow'[m].rows = follow[m].rows /\ follow'[m].offsets = follow[m].offsets
      /\ \A n \in Indexes : n # m => follow'[n] = follow[n]
      /\ DOMAIN follow' = Indexes
      /\ \A key \in Captured(m) : Standing(m, key)' = Standing(m, key)
    BY <1>1, <1>2, <1>3, StateChanged
<1>5. FollowInv' /\ DestInv'
    BY <1>1, <1>4, ConnectorChanged
<1>6. SourceInv' /\ RequestInv' /\ PlanInv'
    BY <1>1, <1>2, <1>4, AtConnector, AttemptKeeps DEF RecoveryInv, RequestInv
<1>7. ReachedInv'
    BY <1>1, <1>2, <1>4, ContinuesNext
<1>8. PlaceInv'
  <2>1. RowsOf(m)' = RowsOf(m) /\ index' = m
    BY <1>1, <1>2, PlanIsSame
  <2>2. /\ Planned(m) /\ existing = {} /\ (follow[m].rows # {} => RowsOf(m) = {})
    BY <1>1, <1>2 DEF RecoveryInv, PlaceInv
  <2> QED
    BY <1>1, <1>4, <2>1, <2>2 DEF PlaceInv, Planned
<1> QED
    BY <1>5, <1>6, <1>7, <1>8 DEF RecoveryInv

\* Offsets that are given to it again move no connector: it is past them only where it
\* has a row, and there the row counts.
LEMMA PatchNext ==
    ASSUME JobInv, RecoveryInv, PatchOffsets PROVE RecoveryInv'
<1>1. /\ place = "patch" /\ place \in Handing /\ place \in HandingOver \ {"handover"}
      /\ SamePlan /\ UNCHANGED handedOver /\ UNCHANGED <<dest, restored>>
      /\ place' = "hydrate" /\ place' \in HandingOver /\ UNCHANGED <<index, existing>>
    BY DEF PatchOffsets, Continues, handedVars, handedOver, sinkVars, kafkaVars, jobVars,
           SamePlan, HandingOver, Handing
<1>2. PICK m \in Indexes : m = index
    BY <1>1, AtConnector
<1>3. /\ FollowOK(m) /\ Planned(m) /\ follow[m] # Absent /\ Handed(m)
      /\ DOMAIN follow = Indexes /\ DOMAIN dest = Keys /\ restored /\ place # "cutover"
    BY <1>1, <1>2, AtConnector
<1>4. /\ Bounded' = Bounded /\ RowsOf(m)' = RowsOf(m) /\ GoalOf(m)' = GoalOf(m)
    BY <1>1, PlanIsSame
<1>5. follow' = [follow EXCEPT ![m].offsets = Offsets(GoalOf(m))]
    BY <1>2 DEF PatchOffsets
<1>6. DOMAIN follow[m] = {"state", "rows", "offsets"} /\ follow[m].state = "STOPPED"
    BY <1>1, <1>2, <1>3 DEF FollowOK, RecoveryInv, PlaceInv
<1>7. /\ DOMAIN follow'[m] = {"state", "rows", "offsets"} /\ follow'[m].state = "STOPPED"
      /\ follow'[m].rows = follow[m].rows /\ follow'[m].offsets = Offsets(GoalOf(m))
      /\ \A n \in Indexes : n # m => follow'[n] = follow[n]
      /\ DOMAIN follow' = Indexes
    BY <1>3, <1>5, <1>6
<1>8. follow'[m] # Absent /\ follow'[m].offsets # {}
    BY <1>3, <1>7 DEF Absent, Handed
<1>9. ASSUME NEW key \in Captured(m)
      PROVE  /\ Has(follow[m].rows, key) => FollowPosition(m, key)' = FollowPosition(m, key)
             /\ ~Has(follow[m].rows, key) => FollowPosition(m, key)' = GoalOf(m)[key]
  <2>1. CASE Has(follow[m].rows, key)
    BY <1>7, <2>1 DEF FollowPosition, Position
  <2>2. CASE ~Has(follow[m].rows, key)
    <3>1. /\ Has(Offsets(GoalOf(m)), key)
          /\ At(Offsets(GoalOf(m)), key).offset = GoalOf(m)[key]
      BY <1>3 DEF Handed
    <3> QED
      BY <1>7, <2>2, <3>1 DEF FollowPosition, Position
  <2> QED
    BY <2>1, <2>2
<1>10. ASSUME NEW key \in Captured(m)
       PROVE  FollowPosition(m, key)' = Standing(m, key) /\ Standing(m, key)' = Standing(m, key)
  <2>1. Standing(m, key)' = FollowPosition(m, key)'
    BY <1>1, <1>3, <1>8 DEF Standing, Planned
  <2>2. CASE Has(follow[m].rows, key)
    <3>1. follow[m].offsets # {}
      BY <1>3, <2>2 DEF FollowOK, Has
    <3> QED
      BY <1>3, <1>9, <2>1, <2>2, <3>1 DEF Standing
  <2>3. CASE ~Has(follow[m].rows, key)
    <3>1. Standing(m, key) = GoalOf(m)[key]
      BY <1>3, <2>3 DEF Standing, FollowOK
    <3> QED
      BY <1>9, <2>1, <2>3, <3>1
  <2> QED
    BY <2>2, <2>3
<1>11. FollowOK(m)'
  <2>1. \A key \in Captured(m) :
            FollowPosition(m, key)' \in Nat /\ FollowPosition(m, key)' <= LogEnd[key]
    BY <1>10, StandingInLog
  <2>2. Progressed(m)' <=> Progressed(m)
    BY <1>4, <1>7 DEF Progressed
  <2>3. /\ UniqueKeys(follow'[m].rows) /\ UniqueKeys(follow'[m].offsets)
        /\ \A row \in follow'[m].rows : row.key \in Captured(m) /\ row.max \in 0 .. MaxSigned
        /\ \A o \in follow'[m].offsets : o.key \in Captured(m)
    BY <1>3, <1>7 DEF FollowOK, Handed
  <2>4. follow[m].rows # {} => Progressed(m)
    BY <1>3 DEF FollowOK
  <2>5. Bounded => follow[m].rows \in {{}, RowsOf(m)}
    BY <1>3 DEF FollowOK
  <2>6. Planned(m)'
    BY <1>3 DEF Planned
  <2> QED
    BY <1>4, <1>7, <1>8, <1>9, <2>1, <2>2, <2>3, <2>4, <2>5, <2>6 DEF FollowOK
<1>12. FollowInv' /\ DestInv'
    BY <1>1, <1>7, <1>10, <1>11, ConnectorChanged
<1>13. SourceInv' /\ RequestInv' /\ PlanInv'
    BY <1>1, <1>2, <1>3, <1>7, AttemptKeeps DEF RecoveryInv, RequestInv
<1>14. ReachedInv'
    BY <1>1, <1>2, <1>7, ContinuesNext
<1>15. PlaceInv'
  <2>1. existing = {} /\ (follow[m].rows # {} => RowsOf(m) = {})
    BY <1>1, <1>2 DEF RecoveryInv, PlaceInv
  <2>2. index' = m
    BY <1>1, <1>2
  <2> QED
    BY <1>1, <1>3, <1>4, <1>7, <1>8, <2>1, <2>2 DEF PlaceInv, Planned
<1> QED
    BY <1>12, <1>13, <1>14, <1>15 DEF RecoveryInv

\* A connector whose rows are among those it is given has them where it stands.
LEMMA HydratedOK ==
    ASSUME JobInv, RecoveryInv, SamePlan, place = "hydrate", place' # "cutover",
           UNCHANGED restored, NEW m \in Indexes, m = index,
           follow[m].rows \subseteq RowsOf(m), follow' = [follow EXCEPT ![m].rows = RowsOf(m)]
    PROVE  /\ FollowOK(m)' /\ Ready(m)' /\ follow'[m].state = "STOPPED"
           /\ \A n \in Indexes : n # m => follow'[n] = follow[n]
           /\ DOMAIN follow' = Indexes
           /\ \A key \in Captured(m) : Standing(m, key)' = Standing(m, key)
<1>1. /\ place \in HandingOver \ {"handover"} /\ place \in HandingOver /\ place # "cutover"
    BY DEF HandingOver, Handing
<1>2. /\ FollowOK(m) /\ Planned(m) /\ follow[m] # Absent /\ Handed(m)
      /\ DOMAIN follow = Indexes /\ restored
    BY <1>1, AtConnector
<1>3. /\ Bounded' = Bounded /\ RowsOf(m)' = RowsOf(m) /\ GoalOf(m)' = GoalOf(m)
    BY PlanIsSame
<1>4. /\ DOMAIN follow[m] = {"state", "rows", "offsets"} /\ follow[m].state = "STOPPED"
      /\ follow[m].offsets = Offsets(GoalOf(m)) /\ follow[m].offsets # {}
    BY <1>1, <1>2 DEF FollowOK, RecoveryInv, PlaceInv
<1>5. /\ DOMAIN follow'[m] = {"state", "rows", "offsets"} /\ follow'[m].state = "STOPPED"
      /\ follow'[m].rows = RowsOf(m) /\ follow'[m].offsets = Offsets(GoalOf(m))
      /\ \A n \in Indexes : n # m => follow'[n] = follow[n]
      /\ DOMAIN follow' = Indexes
    BY <1>2, <1>4
<1>6. follow'[m] # Absent /\ follow'[m].offsets # {}
    BY <1>4, <1>5 DEF Absent
<1>7. ASSUME NEW key \in Captured(m)
      PROVE  /\ FollowPosition(m, key) = GoalOf(m)[key]
             /\ FollowPosition(m, key)' = GoalOf(m)[key]
             /\ Standing(m, key)' = Standing(m, key)
  <2>1. FollowPosition(m, key)' = GoalOf(m)[key]
    BY <1>2, <1>5 DEF FollowPosition, Handed
  <2>2. ASSUME Has(follow[m].rows, key) PROVE FollowPosition(m, key) = GoalOf(m)[key]
    <3>1. PICK row \in follow[m].rows : row.key = key
      BY <2>2 DEF Has
    <3>2. /\ row \in RowsOf(m) /\ row.max \in 0 .. MaxSigned
          /\ UniqueKeys(follow[m].rows) /\ UniqueKeys(RowsOf(m))
      BY <1>2, <3>1 DEF FollowOK, Handed
    <3>3. /\ ExactOffset(follow[m].rows, row.key) = row.max + 1
          /\ ExactOffset(RowsOf(m), row.key) = row.max + 1
      BY <3>1, <3>2, RowPosition
    <3>4. ExactOffset(RowsOf(m), key) = GoalOf(m)[key]
      BY <1>2 DEF Handed
    <3>5. FollowPosition(m, key) = ExactOffset(follow[m].rows, key)
      BY <2>2 DEF FollowPosition, Position
    <3>6. ExactOffset(follow[m].rows, key) = ExactOffset(RowsOf(m), key)
      BY <3>1, <3>3
    <3> QED
      BY <3>4, <3>5, <3>6
  <2>3. ASSUME ~Has(follow[m].rows, key) PROVE FollowPosition(m, key) = GoalOf(m)[key]
    BY <1>2, <1>4, <2>3 DEF FollowOK
  <2>4. FollowPosition(m, key) = GoalOf(m)[key]
    BY <2>2, <2>3
  <2>5. Standing(m, key) = FollowPosition(m, key) /\ Standing(m, key)' = FollowPosition(m, key)'
    BY <1>2, <1>4, <1>6 DEF Standing, Planned
  <2> QED
    BY <2>1, <2>4, <2>5
<1>8. Progressed(m)'
    BY <1>2, <1>3, <1>5 DEF Progressed, Handed
<1>9. FollowOK(m)'
  <2>1. \A key \in Captured(m) :
            FollowPosition(m, key)' \in Nat /\ FollowPosition(m, key)' <= LogEnd[key]
    BY <1>2, <1>7 DEF FollowOK
  <2>2. /\ UniqueKeys(follow'[m].rows) /\ UniqueKeys(follow'[m].offsets)
        /\ \A row \in follow'[m].rows : row.key \in Captured(m) /\ row.max \in 0 .. MaxSigned
        /\ \A o \in follow'[m].offsets : o.key \in Captured(m)
    BY <1>2, <1>5 DEF Handed
  <2>3. Planned(m)'
    BY <1>2 DEF Planned
  <2> QED
    BY <1>3, <1>5, <1>6, <1>7, <1>8, <2>1, <2>2, <2>3 DEF FollowOK
<1> QED
    BY <1>5, <1>6, <1>7, <1>8, <1>9 DEF Ready

LEMMA HydrateNext ==
    ASSUME JobInv, RecoveryInv, Hydrate PROVE RecoveryInv'
<1>1. /\ place = "hydrate" /\ place \in Handing /\ place \in HandingOver \ {"handover"}
      /\ SamePlan /\ UNCHANGED handedOver /\ UNCHANGED <<dest, restored>>
    BY DEF Hydrate, handedVars, handedOver, sinkVars, kafkaVars, jobVars, SamePlan,
           HandingOver, Handing
<1>2. PICK m \in Indexes : m = index
    BY <1>1, AtConnector
<1>3. /\ FollowOK(m) /\ Planned(m) /\ follow[m] # Absent /\ Handed(m)
      /\ DOMAIN follow = Indexes /\ DOMAIN dest = Keys /\ restored /\ place # "cutover"
    BY <1>1, <1>2, AtConnector
<1>4. /\ Bounded' = Bounded /\ RowsOf(m)' = RowsOf(m) /\ GoalOf(m)' = GoalOf(m)
    BY <1>1, PlanIsSame
<1>5. /\ follow[m].state = "STOPPED" /\ follow[m].offsets # {}
      /\ follow[m].offsets = Offsets(GoalOf(m)) /\ (~Bounded => existing = {})
      /\ existing = {} /\ follow[m].rows # {} => RowsOf(m) = {}
    BY <1>1, <1>2 DEF RecoveryInv, PlaceInv
<1>6. CASE follow[m].rows \subseteq RowsOf(m)
  <2>1. /\ follow' = [follow EXCEPT ![m].rows = RowsOf(m)]
        /\ IF Bounded THEN Advances ELSE Continues("resume")
    BY <1>2, <1>5, <1>6 DEF Hydrate
  <2>2. place' # "cutover"
    BY <1>1, <2>1 DEF Advances, Continues
  <2>3. /\ FollowOK(m)' /\ Ready(m)' /\ follow'[m].state = "STOPPED"
        /\ \A n \in Indexes : n # m => follow'[n] = follow[n]
        /\ DOMAIN follow' = Indexes
        /\ \A key \in Captured(m) : Standing(m, key)' = Standing(m, key)
    BY <1>1, <1>2, <1>6, <2>1, <2>2, HydratedOK
  <2>4. FollowInv' /\ DestInv'
    BY <1>1, <2>3, ConnectorChanged
  <2>5. CASE Bounded
    <3>1. /\ place' \in {"handover", "done"} /\ index' \in Indexes /\ existing' = {}
          /\ PlaceInv' /\ ReachedInv'
      BY <1>1, <1>2, <2>1, <2>3, <2>5, AdvancesNext
    <3>2. SourceInv' /\ RequestInv' /\ PlanInv'
      BY <1>1, <1>3, <2>3, <3>1, AttemptKeeps DEF UniqueKeys, HandingOver, Handing
    <3> QED
      BY <2>4, <3>1, <3>2 DEF RecoveryInv
  <2>6. CASE ~Bounded
    <3>1. place' = "resume" /\ place' \in HandingOver /\ UNCHANGED <<index, existing>>
      BY <2>1, <2>6 DEF Continues, HandingOver, Handing
    <3>2. SourceInv' /\ RequestInv' /\ PlanInv'
      BY <1>1, <1>2, <1>3, <2>3, <3>1, AttemptKeeps DEF RecoveryInv, RequestInv
    <3>3. ReachedInv'
      BY <1>1, <1>2, <2>3, <3>1, ContinuesNext
    <3>4. PlaceInv'
      <4>1. index' = m
        BY <1>2, <3>1
      <4> QED
        BY <1>3, <1>4, <2>3, <2>6, <3>1, <4>1 DEF PlaceInv, Planned, Ready
    <3> QED
      BY <2>4, <3>2, <3>3, <3>4 DEF RecoveryInv
  <2> QED
    BY <2>5, <2>6
<1>7. CASE ~(follow[m].rows \subseteq RowsOf(m))
  <2>1. place' = "conflict" /\ UNCHANGED <<index, existing, follow>>
    BY <1>2, <1>7 DEF Hydrate, Continues
  <2>2. follow[m].rows # {} /\ ~Bounded
    BY <1>3, <1>7 DEF FollowOK
  <2>3. place' \in HandingOver
    BY <2>1 DEF HandingOver
  <2>4. FollowInv' /\ DestInv'
    BY <1>1, <2>1, ConnectorsRest
  <2>5. SourceInv' /\ RequestInv' /\ PlanInv'
    BY <1>1, <1>2, <1>3, <2>1, <2>3, AttemptKeeps DEF RecoveryInv, RequestInv
  <2>6. ReachedInv'
    BY <1>1, <2>1, <2>3, ContinuesNext
  <2>7. PlaceInv'
    BY <1>2, <1>3, <1>4, <1>5, <2>1, <2>2 DEF PlaceInv, Planned
  <2> QED
    BY <2>4, <2>5, <2>6, <2>7 DEF RecoveryInv
<1> QED
    BY <1>6, <1>7

LEMMA ProgressNext ==
    ASSUME JobInv, RecoveryInv, Progress PROVE RecoveryInv'
<1>1. /\ place = "progress" /\ place \in Handing /\ place \in HandingOver \ {"handover"}
      /\ SamePlan /\ UNCHANGED handedOver /\ UNCHANGED <<follow, dest, restored>>
    BY DEF Progress, handedVars, handedOver, sinkVars, kafkaVars, jobVars, SamePlan,
           HandingOver, Handing
<1>2. PICK m \in Indexes : m = index
    BY <1>1, AtConnector
<1>3. /\ FollowOK(m) /\ Planned(m) /\ follow[m] # Absent
      /\ DOMAIN follow = Indexes /\ DOMAIN dest = Keys
    BY <1>1, <1>2, AtConnector
<1>4. /\ ProgressAccepted(existing, RowsOf(m), GoalOf(m)) /\ ~Bounded
      /\ follow[m].offsets # {} /\ follow[m].rows # {}
    BY <1>1, <1>2 DEF RecoveryInv, PlaceInv
<1>5. place' = "resume" /\ place' \in HandingOver /\ UNCHANGED <<index, existing>>
    BY <1>2, <1>4 DEF Progress, Continues, HandingOver, Handing
<1>6. Bounded' = Bounded /\ (Progressed(m)' <=> Progressed(m))
    BY <1>1, PlanIsSame DEF Progressed
<1>7. Progressed(m)
    BY <1>3, <1>4 DEF FollowOK
<1>8. PlaceInv'
  <2>1. index' = m /\ follow' = follow
    BY <1>1, <1>2, <1>5
  <2> QED
    BY <1>3, <1>4, <1>5, <1>6, <1>7, <2>1 DEF PlaceInv, Planned
<1>9. SourceInv' /\ RequestInv' /\ PlanInv'
    BY <1>1, <1>2, <1>3, <1>5, AttemptKeeps DEF RecoveryInv, RequestInv
<1> QED
    BY <1>1, <1>5, <1>8, <1>9, ConnectorsRest, ContinuesNext DEF RecoveryInv

LEMMA ResumeNext ==
    ASSUME JobInv, RecoveryInv, Resume PROVE RecoveryInv'
<1>1. /\ place = "resume" /\ place \in Handing /\ place \in HandingOver \ {"handover"}
      /\ SamePlan /\ UNCHANGED handedOver /\ UNCHANGED <<dest, restored>> /\ Advances
    BY DEF Resume, handedVars, handedOver, sinkVars, kafkaVars, jobVars, SamePlan,
           HandingOver, Handing
<1>2. PICK m \in Indexes : m = index
    BY <1>1, AtConnector
<1>3. follow' = [follow EXCEPT ![m].state = "RUNNING"]
    BY <1>2 DEF Resume
<1>4. follow[m].offsets # {} /\ Progressed(m) /\ ~Bounded
    BY <1>1, <1>2 DEF RecoveryInv, PlaceInv
<1>5. place' # "cutover"
    BY <1>1 DEF Advances
<1>6. /\ FollowOK(m)' /\ follow'[m] # Absent
      /\ follow'[m].rows = follow[m].rows /\ follow'[m].offsets = follow[m].offsets
      /\ \A n \in Indexes : n # m => follow'[n] = follow[n]
      /\ DOMAIN follow' = Indexes
      /\ \A key \in Captured(m) : Standing(m, key)' = Standing(m, key)
    BY <1>1, <1>2, <1>3, <1>4, <1>5, StateChanged
<1>7. Ready(m)'
    BY <1>1, <1>4, <1>6, PlanIsSame DEF Ready, Progressed
<1>8. /\ place' \in {"handover", "done"} /\ index' \in Indexes /\ existing' = {}
      /\ PlaceInv' /\ ReachedInv'
    BY <1>1, <1>2, <1>6, <1>7, AdvancesNext
<1>9. SourceInv' /\ RequestInv' /\ PlanInv'
    BY <1>1, <1>6, <1>8, AtConnector, AttemptKeeps DEF UniqueKeys, HandingOver, Handing
<1> QED
    BY <1>1, <1>6, <1>8, <1>9, ConnectorChanged DEF RecoveryInv

LEMMA HandoverNext ==
    ASSUME JobInv, RecoveryInv, Handover PROVE RecoveryInv'
    BY CreateNext, StopNext, PatchNext, HydrateNext, ProgressNext, ResumeNext DEF Handover

\* A put of a follow connector moves its row, its offset and the destination alike.
LEMMA FollowPutNext ==
    ASSUME JobInv, RecoveryInv, NEW n \in Indexes, NEW key, NEW last \in 0 .. MaxSigned,
           FollowPut(n, key, last)
    PROVE  RecoveryInv'
<1> DEFINE rows == follow[n].rows
           offsets == follow[n].offsets
           next == Position(rows, offsets, key)
           row == [key |-> key, min |-> next, max |-> last, state |-> "AFTER_PROCESSING"]
           offset == [key |-> key, offset |-> last + 1]
<1>1. /\ follow[n].state = "RUNNING" /\ Has(offsets, key)
      /\ next <= last /\ last < LogEnd[key]
      /\ follow' = [follow EXCEPT ![n].rows = With(@, row), ![n].offsets = With(@, offset)]
      /\ dest' = [dest EXCEPT ![key] = @ \o [i \in 1 .. (last + 1) - next |-> next + i - 1]]
      /\ UNCHANGED <<held, low, job, captured, backups>>
      /\ UNCHANGED <<place, request, index, existing, retries, restored>>
      /\ SamePlan
    BY DEF FollowPut, sinkVars, kafkaVars, jobVars, planVars, SamePlan
<1>2. /\ follow[n] # Absent /\ FollowOK(n)
      /\ DOMAIN follow = Indexes /\ DOMAIN dest = Keys
    BY <1>1 DEF Absent, RecoveryInv, RequestInv, FollowInv
<1>3. /\ Planned(n) /\ DOMAIN follow[n] = {"state", "rows", "offsets"}
      /\ UniqueKeys(rows) /\ UniqueKeys(offsets)
      /\ \A r \in rows : r.key \in Captured(n) /\ r.max \in 0 .. MaxSigned
      /\ \A o \in offsets : o.key \in Captured(n)
      /\ ProgressAccepted(rows, RowsOf(n), GoalOf(n)) /\ offsets # {}
      /\ \A k \in Captured(n) : Position(rows, offsets, k) = FollowPosition(n, k)
      /\ ~(Bounded /\ place # "cutover")
    BY <1>1, <1>2 DEF FollowOK, FollowPosition, Progressed
<1>4. key \in Captured(n)
    BY <1>1, <1>3 DEF Has
<1>5. /\ next \in Nat /\ LogEnd[key] \in 0 .. MaxSigned /\ key \in Keys /\ last \in Nat
      /\ dest[key] = FirstRecords(next)
  <2>1. restored
    BY <1>2 DEF RecoveryInv, RequestInv
  <2>2. next = FollowPosition(n, key) /\ Standing(n, key) = next
    BY <1>2, <1>3, <1>4, <2>1 DEF Standing
  <2>3. Standing(n, key) \in Nat /\ dest[key] = FirstRecords(Standing(n, key))
    BY <1>4, StandingInLog DEF RecoveryInv, DestInv
  <2> QED
    BY <1>4, <2>2, <2>3, CapturedApart, BoundAssumption
<1>6. /\ follow'[n].rows = With(rows, row) /\ follow'[n].offsets = With(offsets, offset)
      /\ follow'[n].state = "RUNNING" /\ DOMAIN follow'[n] = {"state", "rows", "offsets"}
      /\ \A m \in Indexes : m # n => follow'[m] = follow[m]
      /\ DOMAIN follow' = Indexes
    BY <1>1, <1>2, <1>3
<1>7. row.key = key /\ row.max = last /\ offset.key = key
    OBVIOUS
<1>8. DOMAIN dest' = Keys /\ \A k \in Keys : k # key => dest'[k] = dest[k]
    BY <1>1, <1>2
<1>9. dest'[key] = FirstRecords(last + 1)
  <2> DEFINE stop == last + 1
             more == [i \in 1 .. stop - next |-> next + i - 1]
  <2>1. dest'[key] = dest[key] \o more
    BY <1>1, <1>2, <1>5
  <2>2. next \in Nat /\ stop \in Nat /\ next <= stop
    BY <1>1, <1>5
  <2>3. ASSUME NEW x, x = next, NEW y, y = stop
        PROVE  FirstRecords(x) \o [i \in 1 .. y - x |-> x + i - 1] = FirstRecords(y)
    BY <2>2, <2>3, FirstRecordsJoin
  <2> HIDE DEF next, stop
  <2>4. FirstRecords(next) \o more = FirstRecords(stop)
    BY <2>3
  <2> HIDE DEF more
  <2>5. dest'[key] = FirstRecords(stop)
    BY <1>5, <2>1, <2>4
  <2> QED
    BY <2>5 DEF stop
<1> HIDE DEF rows, offsets, next, row, offset
<1>10. /\ Position(With(rows, row), With(offsets, offset), key) = last + 1
       /\ \A k : k # key =>
             Position(With(rows, row), With(offsets, offset), k) = Position(rows, offsets, k)
    BY <1>3, <1>5, <1>7, PositionAfterPut, PositionOfOthers
<1>11. /\ FollowPosition(n, key)' = last + 1
       /\ \A k \in Captured(n) : k # key => FollowPosition(n, k)' = FollowPosition(n, k)
    BY <1>3, <1>6, <1>10 DEF FollowPosition
<1>12. /\ UniqueKeys(With(rows, row)) /\ row \in With(rows, row)
       /\ \A r \in With(rows, row) : r = row \/ (r \in rows /\ r.key # key)
       /\ \A r \in rows : r.key # key => r \in With(rows, row)
       /\ UniqueKeys(With(offsets, offset)) /\ offset \in With(offsets, offset)
       /\ Has(With(rows, row), key)
       /\ \A k : k # key => (Has(With(rows, row), k) <=> Has(rows, k))
       /\ \A o \in With(offsets, offset) : o = offset \/ o \in offsets
  <2>1. \A k : k # key => (Has(With(rows, row), k) <=> Has(rows, k))
    BY <1>3, <1>7, OthersKept
  <2> QED
    BY <1>3, <1>7, <2>1, WithUnique DEF Has
<1>13. \A k \in Captured(n) :
           /\ FollowPosition(n, k)' \in Nat /\ FollowPosition(n, k)' <= LogEnd[k]
           /\ ~Has(follow'[n].rows, k) => FollowPosition(n, k)' = GoalOf(n)[k]
  <2>1. \A k \in Captured(n) :
            /\ FollowPosition(n, k) \in Nat /\ FollowPosition(n, k) <= LogEnd[k]
            /\ ~Has(rows, k) => FollowPosition(n, k) = GoalOf(n)[k]
    BY <1>2, <1>3 DEF FollowOK, rows, offsets
  <2> QED
    BY <1>1, <1>5, <1>6, <1>11, <1>12, <2>1
<1>14. ProgressAccepted(With(rows, row), RowsOf(n), GoalOf(n))
  <2>1. /\ SourceInv /\ PlanFits /\ request.backup \in DOMAIN backups /\ n \in RecoveredPipelines
    BY <1>2, <1>3 DEF RecoveryInv, RequestInv, PlanInv, RecoveredPipelines
  <2>2. Handed(n) /\ DOMAIN GoalOf(n) = Captured(n)
    BY <2>1, HandedIsRight, GoalsAre
  <2>3. \A r \in With(rows, row) : r.key \in DOMAIN GoalOf(n)
    BY <1>3, <1>4, <1>7, <1>12, <2>2
  <2>4. ASSUME NEW expected \in RowsOf(n)
        PROVE  \E r \in With(rows, row) : r.key = expected.key /\ r.max >= expected.max
    <3>1. PICK r \in rows : r.key = expected.key /\ r.max >= expected.max
      BY <1>3 DEF ProgressAccepted
    <3>2. CASE r.key # key
      BY <1>12, <3>1, <3>2
    <3>3. CASE r.key = key
      <4>1. ExactOffset(rows, key) = r.max + 1
        BY <1>3, <3>1, <3>3, RowPosition
      <4>2. next = r.max + 1
        BY <3>1, <3>3, <4>1 DEF next, Position, Has
      <4>3. r.max \in 0 .. MaxSigned /\ expected.max \in 0 .. MaxSigned
        BY <1>3, <2>2, <3>1 DEF Handed
      <4>4. row.max >= expected.max
        BY <1>1, <1>5, <1>7, <3>1, <4>2, <4>3, WidthAssumption
      <4> QED
        BY <1>7, <1>12, <3>1, <3>3, <4>4
    <3> QED
      BY <3>2, <3>3
  <2> QED
    BY <2>3, <2>4 DEF ProgressAccepted
<1>15. FollowOK(n)'
  <2>1. RowsOf(n)' = RowsOf(n) /\ GoalOf(n)' = GoalOf(n) /\ Bounded' = Bounded
    BY <1>1, PlanIsSame
  <2>2. \A r \in With(rows, row) : r.key \in Captured(n) /\ r.max \in 0 .. MaxSigned
    BY <1>3, <1>4, <1>7, <1>12
  <2>3. \A o \in With(offsets, offset) : o.key \in Captured(n)
    BY <1>3, <1>4, <1>7, <1>12
  <2>4. Planned(n)' /\ With(rows, row) # {} /\ ~(Bounded' /\ place' # "cutover")
    BY <1>1, <1>3, <1>12, <2>1 DEF Planned
  <2> QED
    BY <1>6, <1>12, <1>13, <1>14, <2>1, <2>2, <2>3, <2>4 DEF FollowOK, Progressed
<1>16. FollowInv'
  <2>1. ASSUME NEW m \in Indexes, m # n, follow'[m] # Absent PROVE FollowOK(m)'
    BY <1>1, <1>6, <2>1, FollowKept DEF RecoveryInv, FollowInv
  <2> QED
    BY <1>15, <2>1 DEF FollowInv
<1>17. follow'[n] # Absent
    BY <1>6 DEF Absent
<1>18. DestInv'
  <2>1. ASSUME NEW m \in Indexes, NEW k \in Captured(m)
        PROVE  dest'[k] = FirstRecords(Standing(m, k)')
    <3>1. CASE k = key
      <4>1. m = n
        BY <1>4, <3>1, CapturedApart
      <4>2. restored' /\ Planned(n)'
        BY <1>1, <1>2, <1>3 DEF RecoveryInv, RequestInv, Planned
      <4>3. Standing(n, key)' = last + 1
        BY <1>6, <1>11, <1>12, <1>17, <4>2 DEF Standing
      <4> QED
        BY <1>9, <3>1, <4>1, <4>3
    <3>2. CASE k # key
      <4>1. Standing(m, k)' = Standing(m, k)
        <5>1. CASE m # n
          BY <1>1, <1>6, <5>1, StandingKept
        <5>2. CASE m = n
          BY <1>1, <1>2, <1>3, <1>6, <1>11, <1>12, <1>17, <3>2, <5>2 DEF Standing, Planned, offsets
        <5> QED
          BY <5>1, <5>2
      <4> QED
        BY <1>8, <3>2, <4>1, CapturedApart DEF RecoveryInv, DestInv
    <3> QED
      BY <3>1, <3>2
  <2>2. ASSUME NEW k \in Keys, \A m \in Indexes : k \notin Captured(m) PROVE dest'[k] = <<>>
    BY <1>4, <1>8, <2>2 DEF RecoveryInv, DestInv
  <2> QED
    BY <2>1, <2>2 DEF DestInv
<1>19. SourceInv' /\ PlanInv'
    BY <1>1, SourceInvKept, PlanInvKept DEF RecoveryInv
<1>20. RequestInv'
  <2>1. restored
    BY <1>2 DEF RecoveryInv, RequestInv
  <2> QED
    BY <1>1, <1>6, <1>8, <2>1 DEF RecoveryInv, RequestInv, SamePlan, Bounded
<1>21. ReachedInv'
  <2>1. /\ follow'[n].offsets # {}
        /\ RowsOf(n)' = RowsOf(n) /\ GoalOf(n)' = GoalOf(n)
    BY <1>1, <1>6, <1>12, PlanIsSame
  <2>2. Ready(n)'
    BY <1>6, <1>14, <1>17, <2>1 DEF Ready, Progressed
  <2> QED
    BY <1>1, <1>6, <2>2, ReadyKept DEF RecoveryInv, ReachedInv, Planned
<1>22. PlaceInv'
  <2>1. CASE index # n
    <3>1. PICK m : m = index
      OBVIOUS
    <3>2. place \in HandingOver \ {"handover"} => m \in Indexes
      BY <3>1 DEF RecoveryInv, RequestInv
    <3> QED
      BY <1>1, <1>6, <2>1, <3>1, <3>2, PlanIsSame DEF RecoveryInv, PlaceInv, Planned, Progressed
  <2>2. CASE index = n /\ place \in HandingOver \ {"handover"}
    <3>1. place \in {"stop", "progress", "resume"}
      BY <1>1, <2>2 DEF RecoveryInv, PlaceInv, HandingOver, Handing
    <3>2. /\ follow'[n].offsets # {} /\ follow'[n].rows # {} /\ Planned(n)'
          /\ RowsOf(n)' = RowsOf(n) /\ GoalOf(n)' = GoalOf(n) /\ Bounded' = Bounded
          /\ index' = n /\ place' = place /\ existing' = existing
      BY <1>1, <1>3, <1>6, <1>12, <2>2, PlanIsSame DEF Planned
    <3>3. Progressed(n)'
      BY <1>6, <1>14, <3>2 DEF Progressed
    <3>4. place = "stop" => existing = {} /\ RowsOf(n) = {}
      <4>1. rows = {} => RowsOf(n) = {}
        BY <1>3 DEF ProgressAccepted
      <4> QED
        BY <2>2, <4>1 DEF RecoveryInv, PlaceInv, rows
    <3>5. /\ place # "stop" => ~Bounded
          /\ place = "progress" => ProgressAccepted(existing, RowsOf(n), GoalOf(n))
      BY <2>2, <3>1 DEF RecoveryInv, PlaceInv
    <3> QED
      BY <1>17, <3>1, <3>2, <3>3, <3>4, <3>5 DEF PlaceInv
  <2>3. CASE place \notin HandingOver \ {"handover"}
    BY <1>1, <2>3 DEF PlaceInv
  <2> QED
    BY <2>1, <2>2, <2>3
<1> QED
    BY <1>16, <1>18, <1>19, <1>20, <1>21, <1>22 DEF RecoveryInv

-----------------------------------------------------------------------------
(* The theorems.                                                             *)

HandoverInv == Inv /\ RecoveryInv

LEMMA InitHandover == Init => HandoverInv
<1> SUFFICES ASSUME Init PROVE HandoverInv
    OBVIOUS
<1>1. Inv
    BY InitInv
<1>2. SourceInv
  <2>1. \A k \in Keys : LogEnd[k] \in Nat
    BY BoundAssumption
  <2>2. DOMAIN captured = {} /\ DOMAIN backups = {} /\ Len(backups) = 0
    BY DEF Init
  <2> QED
    BY <2>1, <2>2, BoundAssumption DEF Init, SourceInv, Nothing
<1>3. RequestInv
  <2>1. /\ place = "none" /\ request = NoRequest /\ index = 1 /\ retries = 0 /\ restored = FALSE
        /\ existing = {}
        /\ DOMAIN dest = Keys /\ DOMAIN follow = Indexes
        /\ \A n \in Indexes : follow[n] = Absent
    BY DEF Init
  <2>2. 1 \in Indexes /\ 0 \in 0 .. MaxRetries
    BY PipelineAssumption, BoundAssumption
  <2> QED
    BY <2>1, <2>2 DEF RequestInv, UniqueKeys
<1>4. DestInv
  <2>1. \A n \in Indexes : \A key : Standing(n, key) = 0
    BY DEF Init, Standing
  <2>2. \A key \in Keys : dest[key] = <<>>
    BY DEF Init
  <2> QED
    BY <2>1, <2>2, NoRecords, CapturedApart DEF DestInv
<1> QED
    BY <1>1, <1>2, <1>3, <1>4
       DEF HandoverInv, RecoveryInv, Init, PlanInv, FollowInv, PlaceInv, ReachedInv,
           HandingOver, Handing

LEMMA NextHandover == HandoverInv /\ [Next]_vars => HandoverInv'
<1> SUFFICES ASSUME HandoverInv, [Next]_vars PROVE RecoveryInv'
    BY NextInv DEF HandoverInv
<1>1. SinkInv /\ JobInv /\ RecoveryInv /\ SourceInv
    BY DEF HandoverInv, Inv, RecoveryInv
<1>2. CASE Source
  <2>1. UNCHANGED <<recoveryVars, job, backups>>
    BY <1>2 DEF Source, Sink, Put, PutAgain, CommitOffset, OddRow, LoseRow, Grow, Trim, jobVars
  <2> QED
    BY <1>1, <1>2, <2>1, SourceInvSource, RecoveryRests DEF RecoveryInv
<1>3. CASE Capture \/ Check \/ Publish
    BY <1>1, <1>3, SourceInvJob, JobRecovery DEF RecoveryInv
<1>4. CASE Request \/ Plan \/ Handover \/ Interrupt \/ Cutover
    BY <1>1, <1>4, RequestNext, PlanNext, HandoverNext, InterruptNext, CutoverNext
<1>5. ASSUME NEW n \in Indexes, NEW key \in KeysNow(n), NEW last \in 0 .. MaxSigned,
             FollowPut(n, key, last)
      PROVE  RecoveryInv'
    BY <1>1, <1>5, FollowPutNext
<1>6. CASE UNCHANGED vars
  <2>1. UNCHANGED <<held, low, job, captured, backups, recoveryVars>>
    BY <1>6 DEF vars, sinkVars, kafkaVars, jobVars
  <2> QED
    BY <1>1, <2>1, SourceInvKept, RecoveryRests DEF RecoveryInv
<1> QED
    BY <1>2, <1>3, <1>4, <1>5, <1>6 DEF Next, Idle

LEMMA HandoverInvHolds == Spec => []HandoverInv
    BY InitHandover, NextHandover, PTL DEF Spec

\* No offset, row or record passes what its log holds, at the source, in the catalog
\* or in the destination, whatever vector was asked for.
THEOREM HandoverTyped == Spec => []TypeOK
<1>1. HandoverInv => TypeOK
  <2> SUFFICES ASSUME HandoverInv PROVE TypeOK
    OBVIOUS
  <2>1. SinkTypes /\ JobInv /\ RecoveryInv /\ SourceInv /\ RequestInv
    BY DEF HandoverInv, Inv, SinkInv, RecoveryInv
  <2>2. /\ held \in [Keys -> Nat] /\ low \in [Keys -> Nat]
        /\ \A k \in Keys : held[k] <= LogEnd[k] /\ low[k] <= LogEnd[k]
        /\ \A n \in Indexes : UniqueKeys(keeper[n]) /\ UniqueKeys(observed[n])
    BY <2>1 DEF SinkTypes, SourceInv
  <2>3. \A n \in Indexes : count[n] - Pipelines[n].partitions \in {0, 1}
    BY <2>1, PipelineAssumption DEF SinkTypes
  <2>4. Len(captured) \in {0, Len(Pipelines)}
    BY <2>1 DEF JobInv, Captures
  <2>5. /\ Len(backups) \in Nat /\ DOMAIN backups = 1 .. Len(backups)
        /\ Len(backups) <= MaxBackups
    BY <2>1, Appended DEF JobInv, SourceInv
  <2>6. request.backup \in 0 .. Len(backups)
    BY <2>1, <2>5 DEF RequestInv, NoRequest
  <2>7. ASSUME NEW k \in Keys PROVE Len(dest[k]) <= LogEnd[k]
    <3>1. CASE \E n \in Indexes : k \in Captured(n)
      <4>1. PICK n \in Indexes : k \in Captured(n)
        BY <3>1
      <4>2. dest[k] = FirstRecords(Standing(n, k))
        BY <2>1, <4>1 DEF RecoveryInv, DestInv
      <4>3. Standing(n, k) \in Nat /\ Standing(n, k) <= LogEnd[k]
        BY <2>1, <4>1, StandingInLog
      <4> QED
        BY <4>2, <4>3, FirstRecordsLength
    <3>2. CASE \A n \in Indexes : k \notin Captured(n)
      <4>1. dest[k] = <<>>
        BY <2>1, <3>2 DEF RecoveryInv, DestInv
      <4> QED
        BY <4>1, BoundAssumption
    <3> QED
      BY <3>1, <3>2
  <2>8. \A n \in Indexes : follow[n].state \in {"absent", "STOPPED", "RUNNING"}
    BY <2>1 DEF RecoveryInv, FollowInv, FollowOK, Absent
  <2>9. /\ job \in {"idle", "captured", "checked"} /\ DOMAIN dest = Keys
        /\ place \in Handing \cup {"none", "plan", "rejected", "conflict", "done", "cutover"}
        /\ UniqueKeys(existing)
        /\ index \in Indexes /\ retries \in 0 .. MaxRetries /\ restored \in BOOLEAN
    BY <2>1 DEF SourceInv, RequestInv, HandingOver
  <2> QED
    BY <2>2, <2>3, <2>4, <2>5, <2>6, <2>7, <2>8, <2>9 DEF TypeOK
<1> QED
    BY <1>1, HandoverInvHolds, PTL

\* Wherever the offsets of a plan come from and however often it is started over, a
\* follow connector's position is where the destination ends, in every partition.
THEOREM FollowBeginsAtEnd == Spec => []FollowStartsAtEnd
<1>1. HandoverInv => FollowStartsAtEnd
  <2> SUFFICES ASSUME HandoverInv, NEW n \in Indexes, follow[n].offsets # {},
                      NEW key \in Captured(n)
               PROVE  dest[key] = FirstRecords(FollowPosition(n, key))
    BY DEF FollowStartsAtEnd, Captured, FollowPosition
  <2>1. follow[n] # Absent /\ restored /\ Planned(n)
    BY DEF HandoverInv, RecoveryInv, RequestInv, FollowInv, FollowOK, Absent
  <2>2. Standing(n, key) = FollowPosition(n, key)
    BY <2>1 DEF Standing
  <2> QED
    BY <2>2 DEF HandoverInv, RecoveryInv, DestInv
<1> QED
    BY <1>1, HandoverInvHolds, PTL

\* A bounded recovery completes with the records below the target its user named for
\* each partition, so with no vector that leaves one out, repeats one or is too far.
THEOREM CompletesAsRequested == Spec => []CompleteIsAsRequested
<1>1. HandoverInv => CompleteIsAsRequested
  <2> SUFFICES ASSUME HandoverInv, place = "done", Bounded,
                      NEW n \in Indexes, Planned(n), NEW key \in Captured(n)
               PROVE  \E i \in DOMAIN request.targets :
                          /\ request.targets[i].key = key
                          /\ dest[key] = FirstRecords(request.targets[i].offset)
    BY DEF CompleteIsAsRequested, Captured
  <2>1. /\ Ready(n) /\ restored /\ n \in RecoveredPipelines
        /\ JobInv /\ SourceInv /\ PlanFits /\ request.backup \in DOMAIN backups
    BY DEF HandoverInv, Inv, RecoveryInv, RequestInv, PlanInv, ReachedInv, RecoveredPipelines,
           HandingOver, Handing
  <2>2. /\ follow[n].rows = RowsOf(n) /\ follow[n].offsets = Offsets(GoalOf(n)) /\ Handed(n)
    <3>1. /\ follow[n].rows \in {{}, RowsOf(n)} /\ follow[n].offsets \in {{}, Offsets(GoalOf(n))}
          /\ follow[n].offsets # {} /\ follow[n] # Absent
      BY <2>1 DEF HandoverInv, RecoveryInv, FollowInv, FollowOK, Ready
    <3>2. follow[n].rows = {} => RowsOf(n) = {}
      BY <2>1 DEF Ready, Progressed, ProgressAccepted
    <3> QED
      BY <2>1, <3>1, <3>2, HandedIsRight
  <2>3. FollowPosition(n, key) = Goals[key] /\ key \in DOMAIN Goals
    <3>1. FollowPosition(n, key) = GoalOf(n)[key]
      BY <2>2 DEF Handed, FollowPosition
    <3>2. GoalOf(n)[key] = Goals[key] /\ DOMAIN Goals = DOMAIN Starts
      BY <2>1, GoalsAre
    <3>3. key \in DOMAIN Starts
      BY <2>1, StartsAre
    <3> QED
      BY <3>1, <3>2, <3>3
  <2>4. dest[key] = FirstRecords(Goals[key])
    BY <2>1, <2>3 DEF HandoverInv, RecoveryInv, DestInv, Standing, Ready, RecoveredPipelines
  <2> DEFINE targets == request.targets
             chosen == CHOOSE i \in DOMAIN targets : targets[i].key = key
  <2>5. Goals = Vector(targets)
    BY DEF Goals
  <2>6. /\ \E i \in DOMAIN targets : targets[i].key = key
        /\ Goals[key] = targets[chosen].offset
    BY <2>3, <2>5 DEF Vector
  <2>7. chosen \in DOMAIN targets /\ targets[chosen].key = key
    BY <2>6
  <2> QED
    BY <2>4, <2>6, <2>7
<1> QED
    BY <1>1, HandoverInvHolds, PTL

\* An attempt that bails at the rows its own connector wrote, between the read of the
\* KeeperMap and the one that compares it, leaves what the next attempt accepts; no
\* attempt bails at anything else, and none of a bounded recovery does.
THEOREM ConflictsPass == Spec => []ConflictIsTransient
<1>1. HandoverInv => ConflictIsTransient
  <2> SUFFICES ASSUME HandoverInv, place = "conflict" PROVE ConflictIsTransient
    BY DEF ConflictIsTransient
  <2>1. /\ index \in Indexes /\ follow[index] # Absent /\ ~Bounded /\ RowsOf(index) = {}
        /\ existing = {} /\ follow[index].rows # {}
    BY DEF HandoverInv, RecoveryInv, RequestInv, PlaceInv, HandingOver
  <2>2. Progressed(index)
    BY <2>1 DEF HandoverInv, RecoveryInv, FollowInv, FollowOK
  <2> QED
    BY <2>1, <2>2 DEF ConflictIsTransient, Progressed
<1> QED
    BY <1>1, HandoverInvHolds, PTL
=============================================================================
