---------------------------- MODULE RecoveryPlan ----------------------------
(***************************************************************************)
(* RecoveryPlan::new (recovery_resource.rs): from a manifest and the       *)
(* offsets a user asks for to a start and a target for every partition     *)
(* that wrote the table; and what the controller derives from those for a  *)
(* follow connector (controller.rs).                                       *)
(*                                                                         *)
(* A vector that the code sorts by key and knows to be free of duplicates  *)
(* is a function from keys to offsets; iter().eq and zip of two such       *)
(* vectors are equality of their domains and pointwise comparison.         *)
(***************************************************************************)
EXTENDS Manifest

\* The offsets a manifest's connectors list, by connector and place.
Slots(connectors) ==
    UNION {{<<n, i>> : i \in DOMAIN connectors[n].offsets} : n \in DOMAIN connectors}

Slot(connectors, s) == connectors[s[1]].offsets[s[2]]

\* flatten_offsets does not bail: no key of another topic, none twice.
Flattens(connectors) ==
    /\ \A s \in Slots(connectors) : Slot(connectors, s).key[1] = connectors[s[1]].topic
    /\ \A s, t \in Slots(connectors) :
          Slot(connectors, s).key = Slot(connectors, t).key => s = t

StartOffsets(connectors) ==
    [key \in {Slot(connectors, s).key : s \in Slots(connectors)} |->
        Slot(connectors, CHOOSE s \in Slots(connectors) : Slot(connectors, s).key = key).offset]

\* Mutant of TargetsAccepted: a target of every partition is not asked for.
TargetsAcceptedPartial(starts, targets) ==
    /\ \A i, k \in DOMAIN targets : targets[i].key = targets[k].key => i = k
    /\ \A i \in DOMAIN targets :
          targets[i].key \in DOMAIN starts /\ targets[i].offset >= starts[targets[i].key]

\* validate_targets: every partition exactly once, none before its start.
TargetsAccepted(starts, targets) ==
    /\ \A i, k \in DOMAIN targets : targets[i].key = targets[k].key => i = k
    /\ {targets[i].key : i \in DOMAIN targets} = DOMAIN starts
    /\ \A i \in DOMAIN targets : targets[i].offset >= starts[targets[i].key]

Vector(targets) ==
    [key \in {targets[i].key : i \in DOMAIN targets} |->
        targets[CHOOSE i \in DOMAIN targets : targets[i].key = key].offset]

\* Mutant of RangeAccepted: the target is cast to i64, not converted.
RangeAcceptedWrapped(start, target, low, high) ==
    /\ start <= MaxSigned /\ low <= start
    /\ (IF target > MaxSigned THEN target - MaxUnsigned - 1 ELSE target) <= high

\* validate_range.
RangeAccepted(start, target, low, high) ==
    /\ start <= MaxSigned /\ target <= MaxSigned
    /\ low <= start /\ target <= high

\* topic_offsets.
TopicOffsets(vector, topic) == [key \in {k \in DOMAIN vector : k[1] = topic} |-> vector[key]]

\* Mutant of KeeperRows: the row ends at the offset that comes next.
KeeperRowsInclusive(vector) ==
    {[key |-> k, min |-> vector[k], max |-> vector[k], state |-> "AFTER_PROCESSING"] :
        k \in {key \in DOMAIN vector : vector[key] > 0}}

\* keeper_rows: a row that ends just before the offset, none for offset zero.
KeeperRows(vector) ==
    {[key |-> k, min |-> vector[k] - 1, max |-> vector[k] - 1, state |-> "AFTER_PROCESSING"] :
        k \in {key \in DOMAIN vector : vector[key] > 0}}

\* The rows of a follow connector that takes over at the offsets: the captured
\* ones where these are the checkpoint's.
FollowRows(checkpoint, vector) ==
    IF vector = StartOffsets(<<checkpoint>>) THEN checkpoint.rows ELSE KeeperRows(vector)

\* Mutant of ProgressAccepted: a live connector has to be where it was left.
ProgressExact(actual, initial, vector) == actual = initial

\* validate_keeper_progress.
ProgressAccepted(actual, initial, vector) ==
    /\ \A row \in actual : row.key \in DOMAIN vector
    /\ \A expected \in initial :
          \E row \in actual : row.key = expected.key /\ row.max >= expected.max
=============================================================================
